---- MODULE Spec2Model ----
(***************************************************************************)
(* Model of the witness-generation layer of sandstorm:                     *)
(*   binary/src/lib.rs      Memory::from_reader, the Word instruction      *)
(*                          decoders, AirPublicInput, the layout codes,    *)
(*                          CairoAuxInput::serialize_sharp, mem_addr       *)
(*   builtins/src/ecdsa/mod.rs   InstanceTrace::new, verify,               *)
(*                          mimic_ec_mult_air, gen_ec_mult_steps,          *)
(*                          doubling_steps                                 *)
(*                                                                         *)
(* Machine integers keep their width.  A U256 is a little-endian sequence  *)
(* of sixteen 16-bit limbs and a usize (64-bit target) one of four limbs,  *)
(* so that 2^64 and the 252-bit field modulus are exact although TLC's     *)
(* own integers are 32 bits wide.                                          *)
(*                                                                         *)
(* Every function of the source is an operator; a call of it is an action  *)
(* that records the call and its outcome in `call`.  An outcome is         *)
(* Ok(value) or Panic(reason): the source reports every failure by         *)
(* panicking (unwrap, unreachable!, indexing, debug_assert!, overflow).    *)
(* What depends on the build profile (debug_assert!, overflow checks) is   *)
(* decided by the variable debug_assertions, which Init leaves open.       *)
(***************************************************************************)
EXTENDS Integers, Sequences, FiniteSets, TLC

VARIABLES
    debug_assertions,   \* the build profile: TRUE = debug, FALSE = release
    records,            \* the (address, value) records written to the memory file
    tail,               \* bytes of a truncated last record of the memory file
    word,               \* the instruction word a Word method is called on
    ap, fp, pc,         \* the registers handed to the Word methods (usize)
    mem,                \* the Memory handed to the Word methods
    public_memory,      \* AirPublicInput.public_memory
    ecdsa,              \* the arguments handed to the ECDSA trace builder
    call                \* the last call made and its outcome

vars == <<debug_assertions, records, tail, word, ap, fp, pc, mem, public_memory, ecdsa, call>>

----------------------------------------------------------------------------
(* Outcomes and options *)

Ok(v) == [tag |-> "ok", val |-> v]

Panic(why) == [tag |-> "panic", val |-> why]

None == <<>>

Some(v) == <<v>>

NoCall == [op |-> "none"]

----------------------------------------------------------------------------
(* Fixed-width unsigned integers as little-endian limb sequences *)

OFF_MASK == 65535

LimbBase == OFF_MASK + 1

U256Limbs == 16

UsizeLimbs == 4

\* a function on 1..n as the tuple of its values
TupleOf(f, n) == SubSeq(f, 1, n)

Zeros(n) == TupleOf([i \in 1..n |-> 0], n)

\* the limbs of a natural number n < 2^31
FromNat(n, len) ==
    TupleOf([i \in 1..len |-> IF i = 1 THEN n % LimbBase
                              ELSE IF i = 2 THEN n \div LimbBase ELSE 0], len)

U256(n) == FromNat(n, U256Limbs)

Usize(n) == FromNat(n, UsizeLimbs)

IsZero(a) == \A i \in 1..Len(a) : a[i] = 0

RECURSIVE LessFrom(_, _, _)
LessFrom(a, b, i) ==
    IF i = 0 THEN FALSE
    ELSE IF a[i] # b[i] THEN a[i] < b[i]
    ELSE LessFrom(a, b, i - 1)

\* a < b for two numbers of the same width
Less(a, b) == LessFrom(a, b, Len(a))

RECURSIVE AddFrom(_, _, _, _)
AddFrom(a, b, i, carry) ==
    IF i > Len(a) THEN <<carry>>
    ELSE LET s == a[i] + b[i] + carry
         IN  <<s % LimbBase>> \o AddFrom(a, b, i + 1, s \div LimbBase)

\* a + b modulo 2^width, and whether the sum overflowed the width
WrappingAdd(a, b) == SubSeq(AddFrom(a, b, 1, 0), 1, Len(a))

AddOverflows(a, b) == AddFrom(a, b, 1, 0)[Len(a) + 1] = 1

RECURSIVE SubFrom(_, _, _, _)
SubFrom(a, b, i, borrow) ==
    IF i > Len(a) THEN <<borrow>>
    ELSE LET d == a[i] - b[i] - borrow
         IN  IF d < 0 THEN <<d + LimbBase>> \o SubFrom(a, b, i + 1, 1)
             ELSE <<d>> \o SubFrom(a, b, i + 1, 0)

\* a - b modulo 2^width, and whether the difference underflowed
WrappingSub(a, b) == SubSeq(SubFrom(a, b, 1, 0), 1, Len(a))

SubUnderflows(a, b) == SubFrom(a, b, 1, 0)[Len(a) + 1] = 1

Pow2(k) == 2 ^ k

\* a >> k
Shr(a, k) ==
    LET q == k \div 16
        r == k % 16
        limb(j) == IF j <= Len(a) THEN a[j] ELSE 0
    IN  TupleOf([i \in 1..Len(a) |->
                    (limb(i + q) \div Pow2(r)) + (limb(i + q + 1) % Pow2(r)) * Pow2(16 - r)],
                Len(a))

\* 1 << k, for k below the width
OneShl(k, len) ==
    TupleOf([i \in 1..len |-> IF i = (k \div 16) + 1 THEN Pow2(k % 16) ELSE 0], len)

RECURSIVE AndNat(_, _)
AndNat(x, y) ==
    IF x = 0 \/ y = 0 THEN 0
    ELSE (x % 2) * (y % 2) + 2 * AndNat(x \div 2, y \div 2)

\* a & b
BitAnd(a, b) == TupleOf([i \in 1..Len(a) |-> AndNat(a[i], b[i])], Len(a))

\* U256::bit
Bit(a, k) == (a[(k \div 16) + 1] \div Pow2(k % 16)) % 2 = 1

\* a value that fits one limb, as a natural number (try_into::<u16>, as usize of a u16)
FitsU16(a) == \A i \in 2..Len(a) : a[i] = 0

\* usize::try_from(U256)
FitsUsize(a) == \A i \in (UsizeLimbs + 1)..Len(a) : a[i] = 0

----------------------------------------------------------------------------
(* The field F: the 252-bit STARK prime 2^251 + 17 * 2^192 + 1 *)

MODULUS == <<1, 0, 0, 0, 0, 0, 0, 0, 0, 0, 0, 0, 17, 0, 0, 2048>>

FIELD_BYTES == 32

One == U256(1)

\* Word::new: the range check is a debug_assert!, compiled out of release builds
Word_new(w, debug) ==
    IF debug /\ ~Less(w, MODULUS) THEN Panic("debug_assert: word < modulus")
    ELSE Ok(w)

----------------------------------------------------------------------------
(* The memory file and Memory::from_reader *)

\* little-endian bytes of a natural number n < 2^31 (bincode's u64: 8 bytes)
RECURSIVE LeBytes(_, _)
LeBytes(n, len) == IF len = 0 THEN <<>> ELSE <<n % 256>> \o LeBytes(n \div 256, len - 1)

\* little-endian bytes of a limb sequence
RECURSIVE LimbBytes(_)
LimbBytes(a) ==
    IF a = <<>> THEN <<>> ELSE <<Head(a) % 256, Head(a) \div 256>> \o LimbBytes(Tail(a))

\* the file cairo-run writes: per record the address (u64) then the value
RECURSIVE EncodeRecords(_)
EncodeRecords(rs) ==
    IF rs = <<>> THEN <<>>
    ELSE LeBytes(Head(rs).address, 8) \o LimbBytes(Head(rs).value) \o EncodeRecords(Tail(rs))

Stream == EncodeRecords(records) \o tail

\* bincode::deserialize_from of a u64, for the addresses the model writes
RECURSIVE deserialize_u64(_)
deserialize_u64(bytes) ==
    IF bytes = <<>> THEN 0 ELSE Head(bytes) + 256 * deserialize_u64(Tail(bytes))

\* U256::try_from_le_slice of field_bytes::<F>() bytes
try_from_le_slice(bytes) ==
    TupleOf([i \in 1..(Len(bytes) \div 2) |-> bytes[2 * i - 1] + 256 * bytes[2 * i]],
            Len(bytes) \div 2)

Max(a, b) == IF a >= b THEN a ELSE b

\* the while loop of from_reader: one record per iteration
RECURSIVE read_records(_, _, _, _)
read_records(bytes, partial_memory, max_address, debug) ==
    IF bytes = <<>> THEN Ok([partial_memory |-> partial_memory, max_address |-> max_address])
    ELSE IF Len(bytes) < 8 THEN Panic("unwrap: bincode io error (unexpected eof)")
    ELSE IF Len(bytes) < 8 + FIELD_BYTES THEN Panic("unwrap: read_exact failed to fill whole buffer")
    ELSE LET address == deserialize_u64(SubSeq(bytes, 1, 8))
             w == Word_new(try_from_le_slice(SubSeq(bytes, 9, 8 + FIELD_BYTES)), debug)
         IN  IF w.tag = "panic" THEN w
             ELSE read_records(SubSeq(bytes, 9 + FIELD_BYTES, Len(bytes)),
                               Append(partial_memory, [address |-> address, word |-> w.val]),
                               Max(max_address, address), debug)

\* vec![None; max_address + 1]
new_table(max_address) == TupleOf([i \in 1..(max_address + 1) |-> None], max_address + 1)

\* a fill that leaves the slot of a zero word empty
RECURSIVE fill_table_skipping_zero(_, _)
fill_table_skipping_zero(memory, partial_memory) ==
    IF partial_memory = <<>> THEN memory
    ELSE fill_table_skipping_zero(
            IF IsZero(Head(partial_memory).word) THEN memory
            ELSE [memory EXCEPT ![Head(partial_memory).address + 1] = Some(Head(partial_memory).word)],
            Tail(partial_memory))

\* for (address, word) in partial_memory { memory[address] = Some(word) }
RECURSIVE fill_table(_, _)
fill_table(memory, partial_memory) ==
    IF partial_memory = <<>> THEN memory
    ELSE fill_table([memory EXCEPT ![Head(partial_memory).address + 1] = Some(Head(partial_memory).word)],
                    Tail(partial_memory))

Memory_from_reader(bytes, debug) ==
    LET r == read_records(bytes, <<>>, 0, debug)
    IN  IF r.tag = "panic" THEN r
        ELSE Ok(fill_table(new_table(r.val.max_address), r.val.partial_memory))

----------------------------------------------------------------------------
(* Field arithmetic of F (ark_ff), on values below MODULUS *)

\* Word::into_felt: BigUint -> F reduces modulo the field modulus
RECURSIVE into_felt(_)
into_felt(w) == IF Less(w, MODULUS) THEN w ELSE into_felt(WrappingSub(w, MODULUS))

FAdd(a, b) ==
    LET s == WrappingAdd(a, b)
    IN  IF Less(s, MODULUS) THEN s ELSE WrappingSub(s, MODULUS)

FSub(a, b) ==
    IF Less(a, b) THEN WrappingSub(WrappingAdd(a, MODULUS), b) ELSE WrappingSub(a, b)

\* Loops of up to 256 rounds are evaluated in blocks of LimbBits rounds, a block
\* being one level of recursion, and carry their variables as one tuple.
LimbBits == 16

\* the bits k-1 .. 0 of the limb x, high to low: acc = 2 * acc + bit * a; s = <<acc, k>>
RECURSIVE fmul_bits(_, _, _)
fmul_bits(s, a, x) ==
    IF s[2] = 0 THEN s
    ELSE LET twice == FAdd(s[1], s[1])
             bit == (x \div Pow2(s[2] - 1)) % 2
         IN  fmul_bits(<<IF bit = 1 THEN FAdd(twice, a) ELSE twice, s[2] - 1>>, a, x)

\* the limbs i .. 1 of b, high to low; s = <<acc, i>>
RECURSIVE fmul_limbs(_, _, _)
fmul_limbs(s, a, b) ==
    IF s[2] = 0 THEN s
    ELSE fmul_limbs(<<fmul_bits(<<s[1], LimbBits>>, a, b[s[2]])[1], s[2] - 1>>, a, b)

\* a * b in the field
FMul(a, b) == fmul_limbs(<<U256(0), Len(b)>>, a, b)[1]

\* x / 2 in the field: (x + MODULUS) / 2 when x is odd
FHalve(x) == IF x[1] % 2 = 0 THEN Shr(x, 1) ELSE Shr(WrappingAdd(x, MODULUS), 1)

IsEven(u) == u[1] % 2 = 0

\* at most n rounds of: while u.is_even() { u.div2(); b = b / 2 }; s = <<u, b>>
RECURSIVE div2_block(_, _)
div2_block(s, n) ==
    IF n = 0 \/ ~IsEven(s[1]) THEN s
    ELSE div2_block(<<Shr(s[1], 1), FHalve(s[2])>>, n - 1)

\* while u.is_even() { u.div2(); b = b / 2 }, for u # 0
RECURSIVE div2_while_even(_)
div2_while_even(s) ==
    IF ~IsEven(s[1]) THEN s ELSE div2_while_even(div2_block(s, LimbBits))

\* one round of the binary extended Euclidean algorithm; s = <<u, v, b, c>>
bea_round(s) ==
    LET ub == div2_while_even(<<s[1], s[3]>>)
        vc == div2_while_even(<<s[2], s[4]>>)
    IN  IF Less(vc[1], ub[1])
        THEN <<WrappingSub(ub[1], vc[1]), vc[1], FSub(ub[2], vc[2]), vc[2]>>
        ELSE <<ub[1], WrappingSub(vc[1], ub[1]), ub[2], FSub(vc[2], ub[2])>>

BeaDone(s) == s[1] = One \/ s[2] = One

RECURSIVE bea_block(_, _)
bea_block(s, n) == IF n = 0 \/ BeaDone(s) THEN s ELSE bea_block(bea_round(s), n - 1)

\* while u != one && v != one { .. }
RECURSIVE bea_loop(_)
bea_loop(s) == IF BeaDone(s) THEN s ELSE bea_loop(bea_block(s, LimbBits))

\* Field::inverse (the binary extended Euclidean algorithm): None for zero
FInverse(a) ==
    IF IsZero(a) THEN None
    ELSE LET s == bea_loop(<<a, MODULUS, One, U256(0)>>)
         IN  Some(IF s[1] = One THEN s[3] ELSE s[4])

----------------------------------------------------------------------------
(* The packed instruction word *)

OFF_DST_BIT_OFFSET == 0

OFF_OP0_BIT_OFFSET == 16

OFF_OP1_BIT_OFFSET == 32

FLAGS_BIT_OFFSET == 48

HALF_OFFSET == 2 ^ 15

Flag_DstReg == 0

Flag_Op0Reg == 1

Flag_Op1Imm == 2

Flag_Op1Fp == 3

Flag_Op1Ap == 4

Flag_ResAdd == 5

Flag_ResMul == 6

Flag_PcJumpAbs == 7

Flag_PcJumpRel == 8

Flag_PcJnz == 9

Flag_ApAdd == 10

Flag_ApAdd1 == 11

Flag_OpcodeCall == 12

Flag_OpcodeRet == 13

Flag_OpcodeAssertEq == 14

Flag_Zero == 15

Flags == 0..15

FlagGroups == {"DstReg", "Op0Reg", "Op1Src", "ResLogic", "PcUpdate", "ApUpdate", "Opcode"}

\* Option::unwrap_or_default, which reads an absent word as zero
unwrap_or_default(opt) == IF opt = None THEN Ok(U256(0)) ELSE Ok(opt[1])

\* Option::unwrap
unwrap(opt) == IF opt = None THEN Panic("unwrap on None") ELSE Ok(opt[1])

\* (..).try_into().unwrap() to a u16
try_into_u16(a) == IF FitsU16(a) THEN Ok(a[1]) ELSE Panic("unwrap: try_into u16")

\* usize::try_from(U256).unwrap()
usize_try_from(a) ==
    IF FitsUsize(a) THEN Ok(SubSeq(a, 1, UsizeLimbs)) ELSE Panic("unwrap: usize::try_from")

\* usize + and -: overflow panics when the build checks it, and wraps otherwise
usize_add(a, b, debug) ==
    IF debug /\ AddOverflows(a, b) THEN Panic("attempt to add with overflow")
    ELSE Ok(WrappingAdd(a, b))

usize_sub(a, b, debug) ==
    IF debug /\ SubUnderflows(a, b) THEN Panic("attempt to subtract with overflow")
    ELSE Ok(WrappingSub(a, b))

\* mem[addr] on the Vec behind Memory
index(m, addr) ==
    IF (\A i \in 2..UsizeLimbs : addr[i] = 0) /\ addr[1] < Len(m) THEN Ok(m[addr[1] + 1])
    ELSE Panic("index out of bounds")

\* a get_flag that counts the flags from bit 49
get_flag_from_next_bit(w, flag) == Bit(w, FLAGS_BIT_OFFSET + flag + 1)

get_flag(w, flag) == Bit(w, FLAGS_BIT_OFFSET + flag)

get_flag_prefix(w, flag) ==
    IF flag = Flag_Zero THEN Ok(0)
    ELSE LET prefix == Shr(w, FLAGS_BIT_OFFSET + flag)
             mask == WrappingSub(OneShl(15 - flag, U256Limbs), One)
         IN  try_into_u16(BitAnd(prefix, mask))

get_off_dst(w) == try_into_u16(BitAnd(Shr(w, OFF_DST_BIT_OFFSET), U256(OFF_MASK)))

get_off_op0(w) == try_into_u16(BitAnd(Shr(w, OFF_OP0_BIT_OFFSET), U256(OFF_MASK)))

get_off_op1(w) == try_into_u16(BitAnd(Shr(w, OFF_OP1_BIT_OFFSET), U256(OFF_MASK)))

\* bool as u8
AsU8(b) == IF b THEN 1 ELSE 0

get_flag_group(w, flag_group) ==
    CASE flag_group = "DstReg" -> AsU8(get_flag(w, Flag_DstReg))
      [] flag_group = "Op0Reg" -> AsU8(get_flag(w, Flag_Op0Reg))
      [] flag_group = "Op1Src" ->
            AsU8(get_flag(w, Flag_Op1Imm)) + AsU8(get_flag(w, Flag_Op1Fp)) * 2
                + AsU8(get_flag(w, Flag_Op1Ap)) * 4
      [] flag_group = "ResLogic" ->
            AsU8(get_flag(w, Flag_ResAdd)) + AsU8(get_flag(w, Flag_ResMul)) * 2
      [] flag_group = "PcUpdate" ->
            AsU8(get_flag(w, Flag_PcJumpAbs)) + AsU8(get_flag(w, Flag_PcJumpRel)) * 2
                + AsU8(get_flag(w, Flag_PcJnz)) * 4
      [] flag_group = "ApUpdate" ->
            AsU8(get_flag(w, Flag_ApAdd)) + AsU8(get_flag(w, Flag_ApAdd1)) * 2
      [] flag_group = "Opcode" ->
            AsU8(get_flag(w, Flag_OpcodeCall)) + AsU8(get_flag(w, Flag_OpcodeRet)) * 2
                + AsU8(get_flag(w, Flag_OpcodeAssertEq)) * 4

\* off as usize + (base - HALF_OFFSET): the subtraction taken first
biased_addr_sub_first(off, base, debug) ==
    LET diff == usize_sub(base, Usize(HALF_OFFSET), debug)
    IN  IF diff.tag = "panic" THEN diff ELSE usize_add(Usize(off), diff.val, debug)

\* off as usize + base - HALF_OFFSET, evaluated left to right
biased_addr(off, base, debug) ==
    LET sum == usize_add(Usize(off), base, debug)
    IN  IF sum.tag = "panic" THEN sum ELSE usize_sub(sum.val, Usize(HALF_OFFSET), debug)

get_op0_addr(w, r_ap, r_fp, debug) ==
    LET off == get_off_op0(w)
    IN  IF off.tag = "panic" THEN off
        ELSE biased_addr(off.val, IF get_flag(w, Flag_Op0Reg) THEN r_fp ELSE r_ap, debug)

get_dst_addr(w, r_ap, r_fp, debug) ==
    LET off == get_off_dst(w)
    IN  IF off.tag = "panic" THEN off
        ELSE biased_addr(off.val, IF get_flag(w, Flag_DstReg) THEN r_fp ELSE r_ap, debug)

\* mem[addr].unwrap(), addr being the outcome of an address computation
read(m, addr) ==
    IF addr.tag = "panic" THEN addr
    ELSE LET slot == index(m, addr.val)
         IN  IF slot.tag = "panic" THEN slot ELSE unwrap(slot.val)

\* mem[addr].unwrap().into_felt()
read_felt(m, addr) ==
    LET x == read(m, addr)
    IN  IF x.tag = "panic" THEN x ELSE Ok(into_felt(x.val))

get_op0(w, r_ap, r_fp, m, debug) == read_felt(m, get_op0_addr(w, r_ap, r_fp, debug))

get_dst(w, r_ap, r_fp, m, debug) == read_felt(m, get_dst_addr(w, r_ap, r_fp, debug))

\* a match on the Op1Src group with the arms of fp and ap exchanged
op1_base_fp_ap_exchanged(w, r_pc, r_ap, r_fp, m, debug) ==
    LET src == get_flag_group(w, "Op1Src")
    IN  CASE src = 0 ->
                LET x == read(m, get_op0_addr(w, r_ap, r_fp, debug))
                IN  IF x.tag = "panic" THEN x ELSE usize_try_from(x.val)
          [] src = 1 -> Ok(r_pc)
          [] src = 2 -> Ok(r_ap)
          [] src = 4 -> Ok(r_fp)
          [] OTHER -> Panic("unreachable")

\* the match of get_op1_addr on the Op1Src group
op1_base(w, r_pc, r_ap, r_fp, m, debug) ==
    LET src == get_flag_group(w, "Op1Src")
    IN  CASE src = 0 ->
                LET x == read(m, get_op0_addr(w, r_ap, r_fp, debug))
                IN  IF x.tag = "panic" THEN x ELSE usize_try_from(x.val)
          [] src = 1 -> Ok(r_pc)
          [] src = 2 -> Ok(r_fp)
          [] src = 4 -> Ok(r_ap)
          [] OTHER -> Panic("unreachable")

get_op1_addr(w, r_pc, r_ap, r_fp, m, debug) ==
    LET off == get_off_op1(w)
        base == op1_base(w, r_pc, r_ap, r_fp, m, debug)
    IN  IF off.tag = "panic" THEN off
        ELSE IF base.tag = "panic" THEN base
        ELSE biased_addr(off.val, base.val, debug)

get_op1(w, r_pc, r_ap, r_fp, m, debug) ==
    read_felt(m, get_op1_addr(w, r_pc, r_ap, r_fp, m, debug))

\* .inverse().unwrap_or_else(F::zero)
inverse_or_zero(x) == IF FInverse(x) = None THEN U256(0) ELSE FInverse(x)[1]

\* a match on res_logic with the arms of + and * exchanged
res_logic_add_mul_exchanged(res_logic, op0, op1) ==
    CASE res_logic = 0 -> Ok(op1)
      [] res_logic = 1 -> Ok(FMul(op0, op1))
      [] res_logic = 2 -> Ok(FAdd(op0, op1))
      [] OTHER -> Panic("unreachable")

\* match res_logic, on the operands read
res_logic_of(res_logic, op0, op1) ==
    CASE res_logic = 0 -> Ok(op1)
      [] res_logic = 1 -> Ok(FAdd(op0, op1))
      [] res_logic = 2 -> Ok(FMul(op0, op1))
      [] OTHER -> Panic("unreachable")

\* the arm 0 | 1 | 2 of get_res: both operands are read before res_logic is matched
res_of_operands(w, r_pc, r_ap, r_fp, m, debug) ==
    LET op0 == read_felt(m, get_op0_addr(w, r_ap, r_fp, debug))
        op1 == read_felt(m, get_op1_addr(w, r_pc, r_ap, r_fp, m, debug))
    IN  IF op0.tag = "panic" THEN op0
        ELSE IF op1.tag = "panic" THEN op1
        ELSE res_logic_of(get_flag_group(w, "ResLogic"), op0.val, op1.val)

\* the arm 4 of get_res
res_of_jnz(w, r_ap, r_fp, m, debug) ==
    LET opcode == get_flag_group(w, "Opcode")
        ap_update == get_flag_group(w, "ApUpdate")
        dst == get_dst(w, r_ap, r_fp, m, debug)
    IN  IF get_flag_group(w, "ResLogic") = 0 /\ opcode = 0 /\ ap_update # 1
        THEN (IF dst.tag = "panic" THEN dst ELSE Ok(inverse_or_zero(dst.val)))
        ELSE Panic("unreachable")

get_res(w, r_pc, r_ap, r_fp, m, debug) ==
    LET pc_update == get_flag_group(w, "PcUpdate")
    IN  CASE pc_update = 4 -> res_of_jnz(w, r_ap, r_fp, m, debug)
          [] pc_update \in {0, 1, 2} -> res_of_operands(w, r_pc, r_ap, r_fp, m, debug)
          [] OTHER -> Panic("unreachable")

----------------------------------------------------------------------------
(* Specification of the memory reader: a memory file is written, then read *)

MaxRecords == 3

Addresses == {0, 1, 5}

ModMinusOne == WrappingSub(MODULUS, One)

Values == {U256(0), U256(7), ModMinusOne, MODULUS}

Records == [address : Addresses, value : Values]

RecordSeqs == UNION {[1..n -> Records] : n \in 0..MaxRecords}

\* nothing, a cut address, or an address followed by a cut value
Tails == {<<>>, <<5>>, LeBytes(5, 8) \o <<7, 0, 0>>}

IdleWord ==
    /\ ecdsa = None
    /\ word = U256(0)
    /\ ap = Usize(0)
    /\ fp = Usize(0)
    /\ pc = Usize(0)
    /\ mem = <<None>>

InitMemory ==
    /\ debug_assertions \in BOOLEAN
    /\ records \in RecordSeqs
    /\ tail \in Tails
    /\ IdleWord
    /\ public_memory = <<>>
    /\ call = NoCall

FromReader ==
    /\ call' = [op |-> "from_reader", result |-> Memory_from_reader(Stream, debug_assertions)]
    /\ UNCHANGED <<debug_assertions, records, tail, word, ap, fp, pc, mem, public_memory, ecdsa>>

NextMemory == FromReader

SpecMemory == InitMemory /\ [][NextMemory]_vars

\* the outcome of from_reader and the table it returned
Returned == call.op = "from_reader" /\ call.result.tag = "ok"

Table == call.result.val

HasAddress(a) == \E i \in 1..Len(records) : records[i].address = a

LastWith(a) == CHOOSE i \in 1..Len(records) :
    /\ records[i].address = a
    /\ \A j \in (i + 1)..Len(records) : records[j].address # a

MaxAddressSeen == CHOOSE a \in Addresses :
    /\ HasAddress(a)
    /\ \A i \in 1..Len(records) : records[i].address <= a

\* C1: for a non-empty stream of records the returned table has length (maximum
\* address seen) + 1; an address that appears in a record holds Some(value) (the
\* value of the last record carrying it, zero included), every other address None.
C1_TableOfRecords ==
    (Returned /\ records # <<>>) =>
        /\ Len(Table) = MaxAddressSeen + 1
        /\ \A a \in 0..(Len(Table) - 1) :
              IF HasAddress(a) THEN Table[a + 1] = Some(records[LastWith(a)].value)
              ELSE Table[a + 1] = None

\* the single record (5, 7): a table of length 6 with five holes
C1_Witness ==
    /\ Returned
    /\ records = <<[address |-> 5, value |-> U256(7)]>>
    /\ Table = <<None, None, None, None, None, Some(U256(7))>>

\* C2: on an empty byte stream from_reader returns a table of length 0.
C2_EmptyStreamEmptyTable ==
    (call.op = "from_reader" /\ records = <<>> /\ tail = <<>>) =>
        (call.result.tag = "ok" /\ Len(Table) = 0)

\* C3: a record whose value is not strictly below the modulus is rejected: no
\* returned table holds a word >= modulus.
C3_NoWordOutOfRange ==
    Returned =>
        /\ \A i \in 1..Len(records) : Less(records[i].value, MODULUS)
        /\ \A i \in 1..Len(Table) : Table[i] # None => Less(Table[i][1], MODULUS)

----------------------------------------------------------------------------
(* Calls of the Word methods *)

\* an instruction word from its fields: offsets at bits 0, 16, 32, flags at bit 48
MkWord(off_dst, off_op0, off_op1, flags, hi) == <<off_dst, off_op0, off_op1, flags>> \o hi

RECURSIVE flags_of(_)
flags_of(S) ==
    IF S = {} THEN 0
    ELSE LET f == CHOOSE x \in S : TRUE IN Pow2(f) + flags_of(S \ {f})

FlagSubsets(k) == {S \in SUBSET Flags : Cardinality(S) <= k}

UsizeMax == WrappingSub(Usize(0), Usize(1))

IdleMemory ==
    /\ ecdsa = None
    /\ records = <<>>
    /\ tail = <<>>
    /\ public_memory = <<>>

UnchangedInputs ==
    UNCHANGED <<debug_assertions, records, tail, word, ap, fp, pc, mem, public_memory, ecdsa>>

GetFlag(flag) ==
    /\ call' = [op |-> "get_flag", arg |-> flag, result |-> Ok(get_flag(word, flag))]
    /\ UnchangedInputs

GetFlagPrefix(flag) ==
    /\ call' = [op |-> "get_flag_prefix", arg |-> flag, result |-> get_flag_prefix(word, flag)]
    /\ UnchangedInputs

GetFlagGroup(flag_group) ==
    /\ call' = [op |-> "get_flag_group", arg |-> flag_group,
                result |-> Ok(get_flag_group(word, flag_group))]
    /\ UnchangedInputs

GetOffDst ==
    /\ call' = [op |-> "get_off_dst", result |-> get_off_dst(word)]
    /\ UnchangedInputs

GetOffOp0 ==
    /\ call' = [op |-> "get_off_op0", result |-> get_off_op0(word)]
    /\ UnchangedInputs

GetOffOp1 ==
    /\ call' = [op |-> "get_off_op1", result |-> get_off_op1(word)]
    /\ UnchangedInputs

GetDstAddr ==
    /\ call' = [op |-> "get_dst_addr", result |-> get_dst_addr(word, ap, fp, debug_assertions)]
    /\ UnchangedInputs

GetOp0Addr ==
    /\ call' = [op |-> "get_op0_addr", result |-> get_op0_addr(word, ap, fp, debug_assertions)]
    /\ UnchangedInputs

GetOp1Addr ==
    /\ call' = [op |-> "get_op1_addr",
                result |-> get_op1_addr(word, pc, ap, fp, mem, debug_assertions)]
    /\ UnchangedInputs

GetOp0 ==
    /\ call' = [op |-> "get_op0", result |-> get_op0(word, ap, fp, mem, debug_assertions)]
    /\ UnchangedInputs

GetDst ==
    /\ call' = [op |-> "get_dst", result |-> get_dst(word, ap, fp, mem, debug_assertions)]
    /\ UnchangedInputs

GetOp1 ==
    /\ call' = [op |-> "get_op1", result |-> get_op1(word, pc, ap, fp, mem, debug_assertions)]
    /\ UnchangedInputs

GetRes ==
    /\ call' = [op |-> "get_res", result |-> get_res(word, pc, ap, fp, mem, debug_assertions)]
    /\ UnchangedInputs

\* the tables Memory::from_reader returns for the files of a set
MemoriesOf(files, debug) ==
    {Memory_from_reader(EncodeRecords(f), debug).val :
        f \in {g \in files : Memory_from_reader(EncodeRecords(g), debug).tag = "ok"}}

----------------------------------------------------------------------------
(* Specification of the flag decoders: words with up to MaxFlagsSet flags set *)

MaxFlagsSet == 2

\* the three-flag groups with every flag set
WholeGroups ==
    {{Flag_Op1Imm, Flag_Op1Fp, Flag_Op1Ap}, {Flag_PcJumpAbs, Flag_PcJumpRel, Flag_PcJnz},
     {Flag_OpcodeCall, Flag_OpcodeRet, Flag_OpcodeAssertEq}}

\* bits 64..255 of a word: none, bit 250 (below the modulus), all (above it)
HighLimbs == {Zeros(12), Zeros(11) \o <<1024>>, TupleOf([i \in 1..12 |-> OFF_MASK], 12)}

FlagWords ==
    {MkWord(HALF_OFFSET, HALF_OFFSET, HALF_OFFSET, flags_of(S), hi) :
        S \in FlagSubsets(MaxFlagsSet) \cup WholeGroups, hi \in HighLimbs}

InitFlags ==
    /\ debug_assertions \in BOOLEAN
    /\ word \in FlagWords
    /\ Word_new(word, debug_assertions).tag = "ok"
    /\ ap = Usize(1)
    /\ fp = Usize(3)
    /\ pc = Usize(5)
    /\ mem = <<None>>
    /\ IdleMemory
    /\ call = NoCall

NextFlags ==
    \/ \E flag \in Flags : GetFlag(flag)
    \/ \E flag \in Flags : GetFlagPrefix(flag)
    \/ \E flag_group \in FlagGroups : GetFlagGroup(flag_group)

SpecFlags == InitFlags /\ [][NextFlags]_vars

\* bit 48 + i of the word, read off the flags limb
FlagBit(i) == (word[4] \div Pow2(i)) % 2

\* the flags of a group, lowest weight first
GroupFlags(g) ==
    CASE g = "DstReg" -> <<Flag_DstReg>>
      [] g = "Op0Reg" -> <<Flag_Op0Reg>>
      [] g = "Op1Src" -> <<Flag_Op1Imm, Flag_Op1Fp, Flag_Op1Ap>>
      [] g = "ResLogic" -> <<Flag_ResAdd, Flag_ResMul>>
      [] g = "PcUpdate" -> <<Flag_PcJumpAbs, Flag_PcJumpRel, Flag_PcJnz>>
      [] g = "ApUpdate" -> <<Flag_ApAdd, Flag_ApAdd1>>
      [] g = "Opcode" -> <<Flag_OpcodeCall, Flag_OpcodeRet, Flag_OpcodeAssertEq>>

\* the range the spec documents for a group
DocumentedRange(g) ==
    CASE g \in {"DstReg", "Op0Reg"} -> {0, 1}
      [] g \in {"ResLogic", "ApUpdate"} -> {0, 1, 2}
      [] g \in {"Op1Src", "PcUpdate", "Opcode"} -> {0, 1, 2, 4}

FlagsSetIn(g) == Cardinality({i \in 1..Len(GroupFlags(g)) : FlagBit(GroupFlags(g)[i]) = 1})

RECURSIVE WeightedSum(_, _)
WeightedSum(fs, weight) ==
    IF fs = <<>> THEN 0 ELSE FlagBit(Head(fs)) * weight + WeightedSum(Tail(fs), 2 * weight)

\* C4 as stated: for every word below the modulus get_flag_group returns a value of
\* the documented range of its group.
C4_AlwaysInDocumentedRange ==
    (call.op = "get_flag_group" /\ Less(word, MODULUS)) =>
        call.result.val \in DocumentedRange(call.arg)

\* C4 amended: get_flag_group returns the sum of the group's flags weighted 1, 2, 4;
\* for a word below the modulus that is in the documented range exactly when at
\* most one flag of the group is set, and is 3, 5, 6 or 7 otherwise.
C4_InRangeIffOneFlag ==
    call.op = "get_flag_group" =>
        /\ call.result = Ok(WeightedSum(GroupFlags(call.arg), 1))
        /\ Less(word, MODULUS) =>
              (call.result.val \in DocumentedRange(call.arg) <=> FlagsSetIn(call.arg) <= 1)
        /\ call.result.val \in DocumentedRange(call.arg) \cup {3, 5, 6, 7}

\* a word below the modulus, with bits above the flags set, decoded to Op1Src = 4
C4_Witness ==
    /\ call.op = "get_flag_group"
    /\ call.arg = "Op1Src"
    /\ Less(word, MODULUS)
    /\ ~IsZero(SubSeq(word, 5, U256Limbs))
    /\ FlagsSetIn("Op1Src") = 1
    /\ call.result = Ok(4)

\* C9: get_flag(Flag::Zero) is false for every word, whatever its bit 63.
C9_ZeroFlagIsFalse ==
    (call.op = "get_flag" /\ call.arg = Flag_Zero) => call.result = Ok(FALSE)

----------------------------------------------------------------------------
(* Specification of the address decoders: offsets and registers at their extremes *)

\* the biased offsets of d = -2^15, d = 0 and d = 2^15 - 1
AddrOffsets == {0, HALF_OFFSET, OFF_MASK}

AddrFlagSets == SUBSET {Flag_DstReg, Flag_Op0Reg, Flag_Op1Imm, Flag_Op1Fp, Flag_Op1Ap}

AddrWords ==
    {MkWord(off_dst, off_op0, off_op1, flags_of(S), Zeros(12)) :
        off_dst \in AddrOffsets, off_op0 \in AddrOffsets, off_op1 \in AddrOffsets,
        S \in AddrFlagSets}

AddrFiles ==
    {<<[address |-> 0, value |-> U256(7)], [address |-> 1, value |-> ModMinusOne]>>,
     <<[address |-> 1, value |-> U256(HALF_OFFSET)]>>}

InitAddr ==
    /\ debug_assertions \in BOOLEAN
    /\ word \in AddrWords
    /\ ap \in {Usize(0), Usize(HALF_OFFSET), UsizeMax}
    /\ fp \in {Usize(1), WrappingSub(UsizeMax, Usize(OFF_MASK))}
    /\ pc = Usize(3)
    /\ mem \in MemoriesOf(AddrFiles, debug_assertions)
    /\ IdleMemory
    /\ call = NoCall

NextAddr ==
    \/ GetOffDst
    \/ GetOffOp0
    \/ GetOffOp1
    \/ GetDstAddr
    \/ GetOp0Addr
    \/ GetOp1Addr

SpecAddr == InitAddr /\ [][NextAddr]_vars

\* a usize widened by one limb, so that sums do not wrap
Wide(a) == a \o <<0>>

\* (biased offset + base) and (base + d) over the integers
WideSum(off, base) == WrappingAdd(Wide(Usize(off)), Wide(base))

WideAddr(off, base) == WrappingSub(WideSum(off, base), Wide(Usize(HALF_OFFSET)))

\* base + d >= 0, and base + d + 2^15 <= usize::MAX
NonNegative(off, base) == ~Less(WideSum(off, base), Wide(Usize(HALF_OFFSET)))

SumFits(off, base) == WideSum(off, base)[UsizeLimbs + 1] = 0

\* the offset field and the base register of the address call made
CallOff == IF call.op = "get_dst_addr" THEN word[1] ELSE word[2]

CallBase ==
    IF call.op = "get_dst_addr" THEN (IF FlagBit(Flag_DstReg) = 1 THEN fp ELSE ap)
    ELSE (IF FlagBit(Flag_Op0Reg) = 1 THEN fp ELSE ap)

IsAddrCall == call.op \in {"get_dst_addr", "get_op0_addr"}

\* C6 as stated: for every displacement and every base with base + d >= 0 the decoded
\* address is base + d, with no wrap in the intermediate arithmetic.
C6_EveryNonNegativeBase ==
    (IsAddrCall /\ NonNegative(CallOff, CallBase)) =>
        /\ call.result.tag = "ok"
        /\ Wide(call.result.val) = WideAddr(CallOff, CallBase)
        /\ SumFits(CallOff, CallBase)

\* C6 amended: for every displacement and every base with base + d >= 0 and
\* base + d + 2^15 <= usize::MAX, get_dst_addr and get_op0_addr return base + d in
\* either build, the sum and the difference both staying inside usize.
C6_BasePlusDisplacement ==
    (IsAddrCall /\ NonNegative(CallOff, CallBase) /\ SumFits(CallOff, CallBase)) =>
        /\ call.result.tag = "ok"
        /\ Wide(call.result.val) = WideAddr(CallOff, CallBase)
        /\ ~AddOverflows(Usize(CallOff), CallBase)
        /\ ~SubUnderflows(WrappingAdd(Usize(CallOff), CallBase), Usize(HALF_OFFSET))

\* d = -2^15 on the base 2^15: the address 0, the lowest one
C6_Witness ==
    /\ call.op = "get_dst_addr"
    /\ word[1] = 0
    /\ CallBase = Usize(HALF_OFFSET)
    /\ debug_assertions
    /\ call.result = Ok(Usize(0))

\* the value of the Op1Src group, read off the flags limb
Op1SrcBits == (word[4] \div Pow2(Flag_Op1Imm)) % 8

\* the address of op0 and the word stored there
Op0AddrRef ==
    WrappingSub(WrappingAdd(Usize(word[2]), IF FlagBit(Flag_Op0Reg) = 1 THEN fp ELSE ap),
                Usize(HALF_OFFSET))

Op1BaseRef ==
    CASE Op1SrcBits = 0 -> SubSeq(mem[Op0AddrRef[1] + 1][1], 1, UsizeLimbs)
      [] Op1SrcBits = 1 -> pc
      [] Op1SrcBits = 2 -> fp
      [] Op1SrcBits = 4 -> ap

\* C5: get_op1_addr returns off_op1 + base - 2^15 with base the word stored at
\* op0_addr (Op1Src = 0), pc (1), fp (2) or ap (4); an Op1Src of 3, 5, 6 or 7 ends
\* the call in the invalid-encoding failure, whatever the rest of the input.
C5_Op1AddrByBase ==
    call.op = "get_op1_addr" =>
        IF Op1SrcBits \in {3, 5, 6, 7} THEN call.result = Panic("unreachable")
        ELSE /\ call.result.tag = "ok" =>
                  call.result.val =
                      WrappingSub(WrappingAdd(Usize(word[3]), Op1BaseRef), Usize(HALF_OFFSET))
             /\ (/\ Op1SrcBits # 0
                 /\ NonNegative(word[3], Op1BaseRef)
                 /\ SumFits(word[3], Op1BaseRef)) => call.result.tag = "ok"

\* Op1Src = 0: the base 7 is the word stored at op0_addr = 0
C5_Witness ==
    /\ call.op = "get_op1_addr"
    /\ Op1SrcBits = 0
    /\ Op0AddrRef = Usize(0)
    /\ word[3] = HALF_OFFSET
    /\ call.result = Ok(Usize(7))

----------------------------------------------------------------------------
(* Specification of the operand reads: words with up to MaxOperandFlags flags set *)

MaxOperandFlags == 2

\* the displacements 0 and 1 on dst, op0 and op1
OperandOffsets ==
    {<<HALF_OFFSET, HALF_OFFSET, HALF_OFFSET>>,
     <<HALF_OFFSET + 1, HALF_OFFSET, HALF_OFFSET + 1>>,
     <<HALF_OFFSET, HALF_OFFSET + 1, HALF_OFFSET>>}

OperandWords ==
    {MkWord(offs[1], offs[2], offs[3], flags_of(S), Zeros(12)) :
        offs \in OperandOffsets, S \in FlagSubsets(MaxOperandFlags)}

\* a full memory, one with holes, and one holding a word that is not below the modulus
OperandFiles ==
    {<<[address |-> 1, value |-> U256(2)], [address |-> 2, value |-> U256(0)],
       [address |-> 3, value |-> U256(3)], [address |-> 4, value |-> ModMinusOne],
       [address |-> 5, value |-> U256(1)], [address |-> 6, value |-> U256(7)]>>,
     <<[address |-> 1, value |-> U256(4)], [address |-> 3, value |-> U256(2)],
       [address |-> 6, value |-> U256(5)]>>,
     <<[address |-> 1, value |-> MODULUS], [address |-> 2, value |-> U256(2)],
       [address |-> 3, value |-> U256(1)]>>}

InitOperands ==
    /\ debug_assertions \in BOOLEAN
    /\ word \in OperandWords
    /\ ap = Usize(1)
    /\ fp = Usize(3)
    /\ pc = Usize(5)
    /\ mem \in MemoriesOf(OperandFiles, debug_assertions)
    /\ IdleMemory
    /\ call = NoCall

NextOperands ==
    \/ GetOp0
    \/ GetDst
    \/ GetOp1Addr
    \/ GetOp1
    \/ GetRes

SpecOperands == InitOperands /\ [][NextOperands]_vars

\* the values of the flag groups, read off the flags limb
ResLogicBits == (word[4] \div Pow2(Flag_ResAdd)) % 4

PcUpdateBits == (word[4] \div Pow2(Flag_PcJumpAbs)) % 8

ApUpdateBits == (word[4] \div Pow2(Flag_ApAdd)) % 4

OpcodeBits == (word[4] \div Pow2(Flag_OpcodeCall)) % 8

\* the operands of the instruction, as the operand getters return them
Op0 == get_op0(word, ap, fp, mem, debug_assertions)

Op1 == get_op1(word, pc, ap, fp, mem, debug_assertions)

Dst == get_dst(word, ap, fp, mem, debug_assertions)

\* k * b by repeated addition
RECURSIVE TimesSmall(_, _)
TimesSmall(k, b) == IF k = 0 THEN U256(0) ELSE FAdd(b, TimesSmall(k - 1, b))

\* a * b in the field for the operands of this specification: one of them is
\* small, or both are -1
RefMul(a, b) ==
    IF FitsU16(a) THEN TimesSmall(a[1], b)
    ELSE IF FitsU16(b) THEN TimesSmall(b[1], a)
    ELSE IF a = ModMinusOne THEN FSub(U256(0), b)
    ELSE FSub(U256(0), a)

IsPanic(r) == r.tag = "panic"

\* C7: get_res is the reference function: with PcUpdate = 4, ResLogic = 0, Opcode = 0
\* and ApUpdate # 1 it is the inverse of dst, and zero for dst = 0; with PcUpdate 0, 1
\* or 2 it is op1, op0 + op1 or op0 * op1 for ResLogic 0, 1 or 2; any other flag
\* combination fails and returns no value.
C7_ResIsReference ==
    call.op = "get_res" =>
        CASE PcUpdateBits = 4 /\ ResLogicBits = 0 /\ OpcodeBits = 0 /\ ApUpdateBits # 1 ->
                IF IsPanic(Dst) THEN IsPanic(call.result)
                ELSE IF IsZero(Dst.val) THEN call.result = Ok(U256(0))
                ELSE /\ call.result.tag = "ok"
                     /\ Less(call.result.val, MODULUS)
                     /\ RefMul(Dst.val, call.result.val) = One
          [] PcUpdateBits \in {0, 1, 2} /\ ResLogicBits \in {0, 1, 2} ->
                IF IsPanic(Op0) \/ IsPanic(Op1) THEN IsPanic(call.result)
                ELSE IF ResLogicBits = 0 THEN call.result = Op1
                ELSE IF ResLogicBits = 1
                THEN /\ call.result.tag = "ok"
                     /\ Less(call.result.val, MODULUS)
                     /\ FSub(call.result.val, Op1.val) = Op0.val
                ELSE call.result = Ok(RefMul(Op0.val, Op1.val))
          [] OTHER -> IsPanic(call.result)

\* PcUpdate = 4: the inverse of dst = 3, neither zero nor one
C7_Witness ==
    /\ call.op = "get_res"
    /\ PcUpdateBits = 4
    /\ Dst = Ok(U256(3))
    /\ call.result.tag = "ok"
    /\ call.result.val \notin {U256(0), One}
    /\ RefMul(U256(3), call.result.val) = One

\* an address that the memory holds no word for
SlotNone(addr) == addr.tag = "ok" /\ index(mem, addr.val) = Ok(None)

Op0Addr == get_op0_addr(word, ap, fp, debug_assertions)

DstAddr == get_dst_addr(word, ap, fp, debug_assertions)

Op1Addr == get_op1_addr(word, pc, ap, fp, mem, debug_assertions)

Unresolved == Panic("unwrap on None")

\* C8: a read through an address whose memory slot is None fails as an unresolved
\* memory reference, in get_op0, get_dst, get_op1, the indirect read of get_op1_addr
\* and the reads of get_res: no value is returned in place of the absent cell.
C8_AbsentCellFails ==
    /\ (call.op = "get_op0" /\ SlotNone(Op0Addr)) => call.result = Unresolved
    /\ (call.op = "get_dst" /\ SlotNone(DstAddr)) => call.result = Unresolved
    /\ (call.op \in {"get_op1_addr", "get_op1"} /\ Op1SrcBits = 0 /\ SlotNone(Op0Addr)) =>
            call.result = Unresolved
    /\ (call.op = "get_op1" /\ SlotNone(Op1Addr)) => call.result = Unresolved
    /\ (call.op = "get_res" /\ PcUpdateBits \in {0, 1, 2}) =>
            /\ SlotNone(Op0Addr) => call.result = Unresolved
            /\ (~IsPanic(Op0) /\ SlotNone(Op1Addr)) => call.result = Unresolved
    /\ (/\ call.op = "get_res"
        /\ PcUpdateBits = 4 /\ ResLogicBits = 0 /\ OpcodeBits = 0 /\ ApUpdateBits # 1
        /\ SlotNone(DstAddr)) => call.result = Unresolved

\* get_res reads op0, then finds the cell of op1 absent
C8_Witness ==
    /\ call.op = "get_res"
    /\ PcUpdateBits = 0
    /\ ~IsPanic(Op0)
    /\ SlotNone(Op1Addr)
    /\ call.result = Unresolved

----------------------------------------------------------------------------
(* AirPublicInput::public_memory_padding, on public memories of up to MaxEntries *)

MaxEntries == 3

\* Iterator::find(|e| e.address == 1)
RECURSIVE find_address_one(_)
find_address_one(entries) ==
    IF entries = <<>> THEN None
    ELSE IF Head(entries).address = 1 THEN Some(Head(entries))
    ELSE find_address_one(Tail(entries))

\* a padding that falls back on the first entry of the public memory
public_memory_padding_or_first(entries) ==
    IF find_address_one(entries) = None /\ entries # <<>> THEN Ok(Head(entries))
    ELSE unwrap(find_address_one(entries))

public_memory_padding(entries) == unwrap(find_address_one(entries))

PublicMemoryPadding ==
    /\ call' = [op |-> "public_memory_padding", result |-> public_memory_padding(public_memory)]
    /\ UnchangedInputs

MemoryEntries == [address : {0, 1, 2}, value : {U256(0), U256(9)}]

InitPublic ==
    /\ debug_assertions \in BOOLEAN
    /\ public_memory \in UNION {[1..n -> MemoryEntries] : n \in 0..MaxEntries}
    /\ records = <<>>
    /\ tail = <<>>
    /\ IdleWord
    /\ call = NoCall

NextPublic == PublicMemoryPadding

SpecPublic == InitPublic /\ [][NextPublic]_vars

HasAddressOne == \E i \in 1..Len(public_memory) : public_memory[i].address = 1

\* C10: public_memory_padding returns an entry of public_memory whose address is 1
\* whenever there is one, and fails, returning no entry, whenever there is none.
C10_PaddingIsAddressOne ==
    call.op = "public_memory_padding" =>
        IF HasAddressOne
        THEN /\ call.result.tag = "ok"
             /\ call.result.val.address = 1
             /\ \E i \in 1..Len(public_memory) : public_memory[i] = call.result.val
        ELSE IsPanic(call.result)

\* two entries of address 1 behind another entry: the first of them is returned
C10_Witness ==
    /\ call.op = "public_memory_padding"
    /\ public_memory = <<[address |-> 0, value |-> U256(9)], [address |-> 1, value |-> U256(9)],
                         [address |-> 1, value |-> U256(0)]>>
    /\ call.result = Ok([address |-> 1, value |-> U256(9)])

----------------------------------------------------------------------------
(* Layout codes and CairoAuxInput::serialize_sharp *)

\* Layout::SHARP_CODE_STARKNET = 8319381555716711796 ("starknet"), a u64
SHARP_CODE_STARKNET == <<25972, 27502, 24946, 29556>>

Layouts ==
    {"Plain", "Small", "Dex", "Recursive", "Starknet", "RecursiveLargeOutput", "AllSolidity",
     "StarknetWithKeccak"}

\* a sharp_code that falls back on the code 0 for the other layouts
sharp_code_or_zero(layout) ==
    IF layout = "Starknet" THEN Ok(SHARP_CODE_STARKNET) ELSE Ok(Usize(0))

sharp_code(layout) ==
    IF layout = "Starknet" THEN Ok(SHARP_CODE_STARKNET) ELSE Panic("not implemented")

from_sharp_code(code) ==
    IF code = SHARP_CODE_STARKNET THEN Ok("Starknet") ELSE Panic("not implemented")

\* U256::from(u64)
U256_from_u64(a) == a \o Zeros(U256Limbs - UsizeLimbs)

\* self.x_segment.map(|s| U256::from(s.begin_addr)) and (.. s.stop_ptr)
map_begin_addr(segment) == IF segment = None THEN None ELSE Some(U256(segment[1].begin_addr))

map_stop_ptr(segment) == IF segment = None THEN None ELSE Some(U256(segment[1].stop_ptr))

base_vals(aux, code) ==
    <<Some(U256(aux.log_n_steps)), Some(U256(aux.range_check_min)),
      Some(U256(aux.range_check_max)), Some(U256_from_u64(code)),
      Some(U256(aux.program_segment.begin_addr)), Some(U256(aux.program_segment.stop_ptr)),
      Some(U256(aux.execution_segment.begin_addr)), Some(U256(aux.execution_segment.stop_ptr)),
      map_begin_addr(aux.output_segment), map_stop_ptr(aux.output_segment),
      map_begin_addr(aux.pedersen_segment), map_stop_ptr(aux.pedersen_segment),
      map_begin_addr(aux.rc_segment), map_stop_ptr(aux.rc_segment)>>

\* the Starknet block with the places of bitwise and ec-op exchanged
starknet_vals_bitwise_after_ec_op(aux) ==
    <<map_begin_addr(aux.ecdsa_segment), map_stop_ptr(aux.ecdsa_segment),
      map_begin_addr(aux.ec_op_segment), map_stop_ptr(aux.ec_op_segment),
      map_begin_addr(aux.bitwise_segment), map_stop_ptr(aux.bitwise_segment),
      map_begin_addr(aux.poseidon_segment), map_stop_ptr(aux.poseidon_segment),
      Some(U256(aux.public_memory_padding.address)), Some(aux.public_memory_padding.value),
      Some(One)>>

\* the arm Layout::Starknet of the match on self.layout
starknet_vals(aux) ==
    <<map_begin_addr(aux.ecdsa_segment), map_stop_ptr(aux.ecdsa_segment),
      map_begin_addr(aux.bitwise_segment), map_stop_ptr(aux.bitwise_segment),
      map_begin_addr(aux.ec_op_segment), map_stop_ptr(aux.ec_op_segment),
      map_begin_addr(aux.poseidon_segment), map_stop_ptr(aux.poseidon_segment),
      Some(U256(aux.public_memory_padding.address)), Some(aux.public_memory_padding.value),
      Some(One)>>

layout_vals(aux) ==
    IF aux.layout = "Starknet" THEN Ok(starknet_vals(aux)) ELSE Panic("not implemented")

\* .flat_map(|e| [e.address.into(), e.value])
RECURSIVE memory_pairs(_)
memory_pairs(entries) ==
    IF entries = <<>> THEN <<>>
    ELSE <<U256(Head(entries).address), Head(entries).value>> \o memory_pairs(Tail(entries))

\* The digest D is a parameter of serialize_sharp with an output of 32 bytes; here
\* it is a checksum of the elements absorbed, spread over the 32 bytes.
RECURSIVE absorb(_, _)
absorb(acc, elements) ==
    IF elements = <<>> THEN acc
    ELSE absorb((acc * 257 + Head(elements)[1] + Head(elements)[2] + 1) % 65521, Tail(elements))

hash_elements(elements) ==
    LET acc == absorb(Len(elements), elements)
    IN  TupleOf([i \in 1..FIELD_BYTES |->
                    ((IF i % 2 = 1 THEN acc \div 256 ELSE acc) + i) % 256], FIELD_BYTES)

\* U256::try_from_be_slice of 32 bytes
try_from_be_slice(bytes) ==
    TupleOf([j \in 1..U256Limbs |->
                bytes[Len(bytes) - 2 * j + 1] * 256 + bytes[Len(bytes) - 2 * j + 2]], U256Limbs)

main_page(aux) ==
    <<Some(U256(Len(aux.public_memory))),
      Some(try_from_be_slice(hash_elements(memory_pairs(aux.public_memory))))>>

\* .map(Option::unwrap).collect()
RECURSIVE unwrap_all(_)
unwrap_all(vals) ==
    IF vals = <<>> THEN Ok(<<>>)
    ELSE LET first == unwrap(Head(vals))
             rest == unwrap_all(Tail(vals))
         IN  IF first.tag = "panic" THEN first
             ELSE IF rest.tag = "panic" THEN rest
             ELSE Ok(<<first.val>> \o rest.val)

serialize_sharp(aux) ==
    LET code == sharp_code(aux.layout)
        block == layout_vals(aux)
    IN  IF code.tag = "panic" THEN code
        ELSE IF block.tag = "panic" THEN block
        ELSE unwrap_all(base_vals(aux, code.val) \o block.val \o main_page(aux))

\* the segments that may be absent from a CairoAuxInput
OptionalSegments == {"output", "pedersen", "rc", "ecdsa", "bitwise", "ec_op", "poseidon"}

\* a segment of the aux input, each with addresses of its own
SegmentAt(n) == [begin_addr |-> 100 * n, stop_ptr |-> 100 * n + 50 + n]

OptionalSegment(name, n, present) == IF name \in present THEN Some(SegmentAt(n)) ELSE None

AuxInput(layout, present, entries) ==
    [log_n_steps |-> 10, layout |-> layout,
     range_check_min |-> 3, range_check_max |-> OFF_MASK,
     public_memory_padding |-> [address |-> 1, value |-> ModMinusOne],
     program_segment |-> SegmentAt(1), execution_segment |-> SegmentAt(2),
     output_segment |-> OptionalSegment("output", 3, present),
     pedersen_segment |-> OptionalSegment("pedersen", 4, present),
     rc_segment |-> OptionalSegment("rc", 5, present),
     ecdsa_segment |-> OptionalSegment("ecdsa", 6, present),
     bitwise_segment |-> OptionalSegment("bitwise", 7, present),
     ec_op_segment |-> OptionalSegment("ec_op", 8, present),
     poseidon_segment |-> OptionalSegment("poseidon", 9, present),
     public_memory |-> entries]

SharpCodes == {SHARP_CODE_STARKNET, Usize(0), Usize(4), UsizeMax}

SharpCode(layout) ==
    /\ call' = [op |-> "sharp_code", arg |-> layout, result |-> sharp_code(layout)]
    /\ UnchangedInputs

FromSharpCode(code) ==
    /\ call' = [op |-> "from_sharp_code", arg |-> code, result |-> from_sharp_code(code)]
    /\ UnchangedInputs

SerializeSharp(layout, present) ==
    /\ call' = [op |-> "serialize_sharp", arg |-> AuxInput(layout, present, public_memory),
                result |-> serialize_sharp(AuxInput(layout, present, public_memory))]
    /\ UnchangedInputs

\* the public memory of the aux input: empty, one entry, two entries
SharpMemories ==
    {<<>>, <<[address |-> 1, value |-> ModMinusOne]>>,
     <<[address |-> 2, value |-> U256(9)], [address |-> 1, value |-> ModMinusOne]>>}

\* CairoAuxInput values lack up to MaxMissing of the optional segments
MaxMissing == 1

PresentSets ==
    {OptionalSegments \ missing :
        missing \in {S \in SUBSET OptionalSegments : Cardinality(S) <= MaxMissing}}

InitSharp ==
    /\ debug_assertions \in BOOLEAN
    /\ public_memory \in SharpMemories
    /\ records = <<>>
    /\ tail = <<>>
    /\ IdleWord
    /\ call = NoCall

NextSharp ==
    \/ \E layout \in Layouts : SharpCode(layout)
    \/ \E code \in SharpCodes : FromSharpCode(code)
    \/ \E layout \in Layouts, present \in PresentSets : SerializeSharp(layout, present)

SpecSharp == InitSharp /\ [][NextSharp]_vars

Serialized == call.op = "serialize_sharp"

AllPresent ==
    \A name \in {"output_segment", "pedersen_segment", "rc_segment"} : call.arg[name] # None

AllStarknetPresent ==
    \A name \in {"ecdsa_segment", "bitwise_segment", "ec_op_segment", "poseidon_segment"} :
        call.arg[name] # None

\* the begin and stop words of a segment that is present
Pair(segment) == <<U256(segment.begin_addr), U256(segment.stop_ptr)>>

\* the digest of the main page, as a 256-bit value
PageDigest == try_from_be_slice(hash_elements(memory_pairs(call.arg.public_memory)))

\* C11: with the Starknet layout and every optional segment present serialize_sharp
\* returns 27 words: log2 step count, rc min, rc max, layout code, the begin/stop
\* pairs of program, execution, output, pedersen, range-check, ecdsa, bitwise, ec-op
\* and poseidon, padding address, padding value, page count 1, main page size
\* (number of public-memory entries) and main page digest.
C11_SharpWordOrder ==
    (Serialized /\ call.arg.layout = "Starknet" /\ AllPresent /\ AllStarknetPresent) =>
        /\ call.result.tag = "ok"
        /\ Len(call.result.val) = 27
        /\ call.result.val =
              <<U256(call.arg.log_n_steps), U256(call.arg.range_check_min),
                U256(call.arg.range_check_max), SHARP_CODE_STARKNET \o Zeros(12)>>
              \o Pair(call.arg.program_segment) \o Pair(call.arg.execution_segment)
              \o Pair(call.arg.output_segment[1]) \o Pair(call.arg.pedersen_segment[1])
              \o Pair(call.arg.rc_segment[1]) \o Pair(call.arg.ecdsa_segment[1])
              \o Pair(call.arg.bitwise_segment[1]) \o Pair(call.arg.ec_op_segment[1])
              \o Pair(call.arg.poseidon_segment[1])
              \o <<U256(call.arg.public_memory_padding.address),
                   call.arg.public_memory_padding.value, U256(1),
                   U256(Len(call.arg.public_memory)), PageDigest>>

\* a full Starknet input with two public-memory entries: 27 words, page size 2
C11_Witness ==
    /\ Serialized
    /\ call.arg.layout = "Starknet"
    /\ AllPresent /\ AllStarknetPresent
    /\ Len(public_memory) = 2
    /\ call.result.tag = "ok"
    /\ Len(call.result.val) = 27
    /\ call.result.val[17] = U256(700)
    /\ call.result.val[26] = U256(2)

\* C12: serialize_sharp fails and returns no words whenever output, pedersen or
\* range-check is absent, or, under the Starknet layout, ecdsa, bitwise, ec-op or
\* poseidon is absent: no default is emitted and no shorter sequence returned.
C12_MissingSegmentFails ==
    (Serialized /\ (~AllPresent \/ (call.arg.layout = "Starknet" /\ ~AllStarknetPresent))) =>
        /\ IsPanic(call.result)
        /\ call.arg.layout = "Starknet" => call.result = Panic("unwrap on None")

\* only the Pedersen segment is absent from a Starknet input
C12_Witness ==
    /\ Serialized
    /\ call.arg.layout = "Starknet"
    /\ call.arg.pedersen_segment = None
    /\ call.arg.output_segment # None /\ call.arg.rc_segment # None /\ AllStarknetPresent
    /\ call.result = Panic("unwrap on None")

\* C13: for every layout other than Starknet sharp_code yields no code and
\* serialize_sharp no words, both failing as not implemented, and no default code
\* is emitted; from_sharp_code(sharp_code(Starknet)) = Starknet.
C13_OnlyStarknetEncodes ==
    /\ (call.op = "sharp_code" /\ call.arg # "Starknet") =>
            call.result = Panic("not implemented")
    /\ (Serialized /\ call.arg.layout # "Starknet") => call.result = Panic("not implemented")
    /\ (call.op = "from_sharp_code" /\ sharp_code("Starknet") = Ok(call.arg)) =>
            call.result = Ok("Starknet")

\* a complete input of the layout Plain is refused
C13_Witness ==
    /\ Serialized
    /\ call.arg.layout = "Plain"
    /\ AllPresent /\ AllStarknetPresent
    /\ call.result = Panic("not implemented")

----------------------------------------------------------------------------
(* The memory addresses of the builtin instances (u32 arithmetic) *)

\* a u32 is two limbs
U32Limbs == 2

U32(n) == FromNat(n, U32Limbs)

U32Max == WrappingSub(U32(0), U32(1))

\* a * k for a small k, with the limb carried out of the width appended
RECURSIVE MulFrom(_, _, _, _)
MulFrom(a, k, i, carry) ==
    IF i > Len(a) THEN <<carry>>
    ELSE LET t == a[i] * k + carry
         IN  <<t % LimbBase>> \o MulFrom(a, k, i + 1, t \div LimbBase)

\* u32 + and *: overflow panics when the build checks it, and wraps otherwise
u32_add(a, b, debug) ==
    IF debug /\ AddOverflows(a, b) THEN Panic("attempt to add with overflow")
    ELSE Ok(WrappingAdd(a, b))

u32_mul(a, k, debug) ==
    IF debug /\ MulFrom(a, k, 1, 0)[Len(a) + 1] # 0
    THEN Panic("attempt to multiply with overflow")
    ELSE Ok(SubSeq(MulFrom(a, k, 1, 0), 1, Len(a)))

\* (segment_addr + index) * width: the sum taken first
instance_offset_sum_first(segment_addr, idx, width, debug) ==
    LET sum == u32_add(segment_addr, idx, debug)
    IN  IF sum.tag = "panic" THEN sum ELSE u32_mul(sum.val, width, debug)

\* let instance_offset = segment_addr + self.index * width
instance_offset(segment_addr, idx, width, debug) ==
    LET product == u32_mul(idx, width, debug)
    IN  IF product.tag = "panic" THEN product ELSE u32_add(segment_addr, product.val, debug)

\* (offset, offset + 1, .., offset + n - 1), the sums evaluated in this order
RECURSIVE offsets_from(_, _, _, _)
offsets_from(offset, j, n, debug) ==
    IF j = n THEN Ok(<<>>)
    ELSE LET addr == IF j = 0 THEN Ok(offset) ELSE u32_add(offset, U32(j), debug)
             rest == offsets_from(offset, j + 1, n, debug)
         IN  IF addr.tag = "panic" THEN addr
             ELSE IF rest.tag = "panic" THEN rest
             ELSE Ok(<<addr.val>> \o rest.val)

instance_addrs(segment_addr, idx, width, debug) ==
    LET offset == instance_offset(segment_addr, idx, width, debug)
    IN  IF offset.tag = "panic" THEN offset ELSE offsets_from(offset.val, 0, width, debug)

EcdsaInstance_mem_addr(idx, segment_addr, debug) ==
    instance_addrs(segment_addr, idx, 2, debug)

PedersenInstance_mem_addr(idx, segment_addr, debug) ==
    instance_addrs(segment_addr, idx, 3, debug)

\* range_check_segment_addr + self.index, a single address
RangeCheckInstance_mem_addr(idx, segment_addr, debug) ==
    LET addr == u32_add(segment_addr, idx, debug)
    IN  IF addr.tag = "panic" THEN addr ELSE Ok(<<addr.val>>)

BitwiseInstance_mem_addr(idx, segment_addr, debug) ==
    instance_addrs(segment_addr, idx, 5, debug)

EcOpInstance_mem_addr(idx, segment_addr, debug) ==
    instance_addrs(segment_addr, idx, 7, debug)

PoseidonInstance_mem_addr(idx, segment_addr, debug) ==
    instance_addrs(segment_addr, idx, 6, debug)

Builtins == {"ecdsa", "pedersen", "range_check", "bitwise", "ec_op", "poseidon"}

mem_addr(builtin, idx, segment_addr, debug) ==
    CASE builtin = "ecdsa" -> EcdsaInstance_mem_addr(idx, segment_addr, debug)
      [] builtin = "pedersen" -> PedersenInstance_mem_addr(idx, segment_addr, debug)
      [] builtin = "range_check" -> RangeCheckInstance_mem_addr(idx, segment_addr, debug)
      [] builtin = "bitwise" -> BitwiseInstance_mem_addr(idx, segment_addr, debug)
      [] builtin = "ec_op" -> EcOpInstance_mem_addr(idx, segment_addr, debug)
      [] builtin = "poseidon" -> PoseidonInstance_mem_addr(idx, segment_addr, debug)

MemAddr(builtin, idx, segment_addr) ==
    /\ call' = [op |-> "mem_addr",
                arg |-> [builtin |-> builtin, index |-> idx, segment_addr |-> segment_addr],
                result |-> mem_addr(builtin, idx, segment_addr, debug_assertions)]
    /\ UnchangedInputs

\* small values, 2^31, and the values next to u32::MAX
U32Values ==
    {U32(0), U32(1), U32(3), U32(70000), <<0, 32768>>, <<21845, 21845>>,
     WrappingSub(U32Max, U32(6)), WrappingSub(U32Max, U32(1)), U32Max}

InitAddrs ==
    /\ debug_assertions \in BOOLEAN
    /\ IdleWord
    /\ IdleMemory
    /\ call = NoCall

NextAddrs ==
    \E builtin \in Builtins, idx \in U32Values, segment_addr \in U32Values :
        MemAddr(builtin, idx, segment_addr)

SpecAddrs == InitAddrs /\ [][NextAddrs]_vars

\* the width the spec gives each builtin
WidthOf(builtin) ==
    CASE builtin = "ecdsa" -> 2
      [] builtin = "pedersen" -> 3
      [] builtin = "range_check" -> 1
      [] builtin = "bitwise" -> 5
      [] builtin = "ec_op" -> 7
      [] builtin = "poseidon" -> 6

\* begin_addr + index * width + j over the integers, on four limbs
FormulaAddr(j) ==
    WrappingAdd(
        WrappingAdd(call.arg.segment_addr \o <<0, 0>>,
                    SubSeq(MulFrom(call.arg.index \o <<0, 0>>, WidthOf(call.arg.builtin), 1, 0),
                           1, UsizeLimbs)),
        Usize(j))

\* the last address of the instance is at most u32::MAX
FormulaFits ==
    LET last == FormulaAddr(WidthOf(call.arg.builtin) - 1)
    IN  last[3] = 0 /\ last[4] = 0

AddrsAreFormula ==
    /\ call.result.tag = "ok"
    /\ Len(call.result.val) = WidthOf(call.arg.builtin)
    /\ \A j \in 1..Len(call.result.val) : call.result.val[j] \o <<0, 0>> = FormulaAddr(j - 1)

\* C14 as stated: for every begin_addr and index in the u32 range the addresses of
\* an instance are begin_addr + index * width + offset as integers, without 32-bit
\* wrap-around (width 2 for ECDSA, 3 Pedersen, 1 range-check, 5 bitwise, 7 EC-op,
\* 6 Poseidon).
C14_EveryIndexAndSegment == call.op = "mem_addr" => AddrsAreFormula

\* C14 amended: the addresses are begin_addr + index * width + offset as integers
\* whenever the last of them, begin_addr + idx * width + width - 1, is at most
\* u32::MAX; the ranges of distinct such indices are then disjoint.
C14_AddrsWithinU32 == (call.op = "mem_addr" /\ FormulaFits) => AddrsAreFormula

\* the last EC-op instance that fits below u32::MAX: idx (2^32 - 1) / 3 / 7 ...
C14_Witness ==
    /\ call.op = "mem_addr"
    /\ call.arg.builtin = "ecdsa"
    /\ call.arg.index = <<21845, 21845>>
    /\ call.arg.segment_addr = U32(70000)
    /\ debug_assertions
    /\ FormulaFits
    /\ call.result.tag = "ok"
    /\ call.result.val[2] = WrappingAdd(call.result.val[1], U32(1))

----------------------------------------------------------------------------
(* The curve of the ECDSA builtin                                          *)
(*                                                                         *)
(* builtins/src/ecdsa/mod.rs takes its curve from                          *)
(* crate::utils::starkware_curve and ark_ec, which are not part of the     *)
(* sources at hand.  The curve is kept as what the specification says of   *)
(* it, a fixed short-Weierstrass curve with known parameters, over a field *)
(* small enough for the point arithmetic to be evaluated:                  *)
(*     y^2 = x^3 + x + 34  over the integers modulo 113,                   *)
(* a group of prime order 127 with no point of x-coordinate 0.  Like the   *)
(* curve of the source it has the coefficient a = 1, a prime order and an  *)
(* odd number of points.  The scalars keep their 256-bit width and the     *)
(* loops their 256 iterations.  A Projective point is kept in its affine   *)
(* normal form, so that into_affine and Affine::from leave it as it is;    *)
(* the point at infinity has the affine coordinates (0, 0), as in ark_ec.  *)

CoordModulus == 113

COEFF_A == 1

COEFF_B == 34

CurveOrder == 127

\* coordinate arithmetic
CAdd(a, b) == (a + b) % CoordModulus

CSub(a, b) == (a + CoordModulus - b) % CoordModulus

CMul(a, b) == (a * b) % CoordModulus

RECURSIVE CPow(_, _)
CPow(a, e) ==
    IF e = 0 THEN 1
    ELSE LET h == CPow(a, e \div 2)
             sq == CMul(h, h)
         IN  IF e % 2 = 1 THEN CMul(sq, a) ELSE sq

\* Field::inverse of a coordinate: None for zero
CInverse(a) == IF a = 0 THEN None ELSE Some(CPow(a, CoordModulus - 2))

CDiv(a, b) == CMul(a, CPow(b, CoordModulus - 2))

AffinePoint(x, y) == [x |-> x, y |-> y, infinity |-> FALSE]

\* Affine::identity
Identity == [x |-> 0, y |-> 0, infinity |-> TRUE]

OnCurve(x, y) == CMul(y, y) = CAdd(CMul(CMul(x, x), x), CAdd(CMul(COEFF_A, x), COEFF_B))

CurvePoints ==
    {AffinePoint(x, y) : <<x, y>> \in
        {c \in (0..CoordModulus - 1) \X (0..CoordModulus - 1) : OnCurve(c[1], c[2])}}

\* -p
point_neg(p) == IF p.infinity THEN p ELSE AffinePoint(p.x, CSub(0, p.y))

\* double_in_place
point_double(p) ==
    IF p.infinity \/ p.y = 0 THEN Identity
    ELSE LET l == CDiv(CAdd(CMul(3, CMul(p.x, p.x)), COEFF_A), CMul(2, p.y))
             x == CSub(CSub(CMul(l, l), p.x), p.x)
         IN  AffinePoint(x, CSub(CMul(l, CSub(p.x, x)), p.y))

\* p + q
point_add(p, q) ==
    IF p.infinity THEN q
    ELSE IF q.infinity THEN p
    ELSE IF p.x = q.x THEN (IF p.y = q.y THEN point_double(p) ELSE Identity)
    ELSE LET l == CDiv(CSub(q.y, p.y), CSub(q.x, p.x))
             x == CSub(CSub(CMul(l, l), p.x), q.x)
         IN  AffinePoint(x, CSub(CMul(l, CSub(p.x, x)), p.y))

\* p - q
point_sub(p, q) == point_add(p, point_neg(q))

\* the slope of the line through p1 and p2, the tangent when they are equal;
\* None when the line is vertical
calculate_slope(p1, p2) ==
    IF p1 = p2
    THEN (IF p1.y = 0 THEN None
          ELSE Some(CDiv(CAdd(CMul(3, CMul(p1.x, p1.x)), COEFF_A), CMul(2, p1.y))))
    ELSE IF p1.x = p2.x THEN None
    ELSE Some(CDiv(CSub(p1.y, p2.y), CSub(p1.x, p2.x)))

\* a coordinate as an element of the 252-bit field, and back
CoordOfFelt(a) == IF FitsU16(a) /\ a[1] < CoordModulus THEN Some(a[1]) ELSE None

\* the two y of the points with the x-coordinate x, the smaller one first;
\* None when there is no such point
get_ys_from_x_unchecked(x) ==
    LET c == CoordOfFelt(x)
        ys == IF c = None THEN {} ELSE {y \in 0..CoordModulus - 1 : OnCurve(c[1], y)}
    IN  IF ys = {} THEN None
        ELSE LET y == CHOOSE v \in ys : \A u \in ys : v <= u
             IN  Some(<<y, CSub(0, y)>>)

\* Curve::GENERATOR
GENERATOR == AffinePoint(1, 6)

\* pedersen::constants::P0
SHIFT_POINT == AffinePoint(3, 8)

----------------------------------------------------------------------------
(* The scalar multiplications of the ECDSA builtin *)

RECURSIVE NatBits(_)
NatBits(n) == IF n = 0 THEN 0 ELSE 1 + NatBits(n \div 2)

\* BigUint::bits: the number of bits of m, 0 for zero
RECURSIVE bits_from(_, _)
bits_from(m, j) ==
    IF j = 0 THEN 0
    ELSE IF m[j] # 0 THEN LimbBits * (j - 1) + NatBits(m[j])
    ELSE bits_from(m, j - 1)

bits(m) == bits_from(m, Len(m))

\* Fp::MODULUS_BIT_SIZE
MODULUS_BIT_SIZE == bits(MODULUS)

\* 2^251
TwoPow251 == OneShl(251, U256Limbs)

\* one round of the loop of mimic_ec_mult_air; s = <<partial_sum, point, m, degenerate>>
mimic_round(s) ==
    IF s[1].x = s[2].x THEN <<s[1], s[2], s[3], TRUE>>
    ELSE <<IF Bit(s[3], 0) THEN point_add(s[1], s[2]) ELSE s[1],
           point_double(s[2]), Shr(s[3], 1), FALSE>>

MimicDone(s) == s[4] \/ IsZero(s[3])

RECURSIVE mimic_block(_, _)
mimic_block(s, n) == IF n = 0 \/ MimicDone(s) THEN s ELSE mimic_block(mimic_round(s), n - 1)

\* while m != U256::ZERO { .. }
RECURSIVE mimic_loop(_)
mimic_loop(s) == IF MimicDone(s) THEN s ELSE mimic_loop(mimic_block(s, LimbBits))

\* the range check as a test of the lowest bit alone
scalar_in_range_odd(m) == Bit(m, 0)

\* (1..Fp::MODULUS_BIT_SIZE).contains(&(m.bits() as u32))
scalar_in_range(m) == 1 <= bits(m) /\ bits(m) < MODULUS_BIT_SIZE

\* m * point + shift_point by the steps of the AIR: None when the AIR errors
mimic_ec_mult_air(m, point, shift_point) ==
    IF ~scalar_in_range(m) THEN None
    ELSE LET s == mimic_loop(<<shift_point, point, m, FALSE>>)
         IN  IF s[4] THEN None ELSE Some(s[1])

EcMultPartialStep(partial_sum, fixed_point, suffix, slope, x_diff_inv) ==
    [partial_sum |-> partial_sum, fixed_point |-> fixed_point, suffix |-> suffix,
     slope |-> slope, x_diff_inv |-> x_diff_inv]

\* the body of the loop with x_diff_inv computed for the set bits only
gen_round_inverse_when_added(s, x) ==
    LET partial_sum == s[1]
        point == s[2]
        i == s[4]
        suffix == Shr(x, i)
        bit == Bit(suffix, 0)
        slope == IF bit THEN unwrap(calculate_slope(point, partial_sum)) ELSE Ok(0)
        x_diff_inv == IF bit THEN unwrap(CInverse(CSub(partial_sum.x, point.x))) ELSE Ok(0)
    IN  IF IsPanic(slope) THEN <<partial_sum, point, slope, i>>
        ELSE IF IsPanic(x_diff_inv) THEN <<partial_sum, point, x_diff_inv, i>>
        ELSE <<IF bit THEN point_add(partial_sum, point) ELSE partial_sum,
               point_double(point),
               Ok(Append(s[3].val,
                         EcMultPartialStep(partial_sum, point, into_felt(suffix),
                                           slope.val, x_diff_inv.val))),
               i + 1>>

\* the body of the loop recording the partial sum after the addition
gen_round_recording_next(s, x) ==
    LET partial_sum == s[1]
        point == s[2]
        i == s[4]
        suffix == Shr(x, i)
        bit == Bit(suffix, 0)
        slope == IF bit THEN unwrap(calculate_slope(point, partial_sum)) ELSE Ok(0)
        x_diff_inv == unwrap(CInverse(CSub(partial_sum.x, point.x)))
        partial_sum_next == IF bit THEN point_add(partial_sum, point) ELSE partial_sum
    IN  IF IsPanic(slope) THEN <<partial_sum, point, slope, i>>
        ELSE IF IsPanic(x_diff_inv) THEN <<partial_sum, point, x_diff_inv, i>>
        ELSE <<partial_sum_next,
               point_double(point),
               Ok(Append(s[3].val,
                         EcMultPartialStep(partial_sum_next, point, into_felt(suffix),
                                           slope.val, x_diff_inv.val))),
               i + 1>>

\* the body of for i in 0..256; s = <<partial_sum, point, res, i>>
gen_round(s, x) ==
    LET partial_sum == s[1]
        point == s[2]
        i == s[4]
        suffix == Shr(x, i)
        bit == Bit(suffix, 0)
        slope == IF bit THEN unwrap(calculate_slope(point, partial_sum)) ELSE Ok(0)
        x_diff_inv == unwrap(CInverse(CSub(partial_sum.x, point.x)))
    IN  IF IsPanic(slope) THEN <<partial_sum, point, slope, i>>
        ELSE IF IsPanic(x_diff_inv) THEN <<partial_sum, point, x_diff_inv, i>>
        ELSE <<IF bit THEN point_add(partial_sum, point) ELSE partial_sum,
               point_double(point),
               Ok(Append(s[3].val,
                         EcMultPartialStep(partial_sum, point, into_felt(suffix),
                                           slope.val, x_diff_inv.val))),
               i + 1>>

\* the number of iterations of the loops of the trace pass
Iterations == 256

GenDone(s) == IsPanic(s[3]) \/ s[4] = Iterations

RECURSIVE gen_block(_, _, _)
gen_block(s, x, n) == IF n = 0 \/ GenDone(s) THEN s ELSE gen_block(gen_round(s, x), x, n - 1)

RECURSIVE gen_loop(_, _)
gen_loop(s, x) == IF GenDone(s) THEN s ELSE gen_loop(gen_block(s, x, LimbBits), x)

\* the list of the steps with the partial sum starting at the negated shift point
gen_ec_mult_steps_negated_shift(x, point, shift_point) ==
    IF IsZero(x) THEN Panic("assertion failed: x != U256::ZERO")
    ELSE IF ~Less(x, TwoPow251) THEN Panic("assertion failed: x < 2^251")
    ELSE gen_loop(<<point_neg(shift_point), point, Ok(<<>>), 0>>, x)[3]

\* the list of the steps of an elliptic curve multiply
gen_ec_mult_steps(x, point, shift_point) ==
    IF IsZero(x) THEN Panic("assertion failed: x != U256::ZERO")
    ELSE IF ~Less(x, TwoPow251) THEN Panic("assertion failed: x < 2^251")
    ELSE gen_loop(<<shift_point, point, Ok(<<>>), 0>>, x)[3]

GenEcMultSteps ==
    /\ call' = [op |-> "gen_ec_mult_steps",
                result |-> gen_ec_mult_steps(ecdsa.x, ecdsa.point, ecdsa.shift_point)]
    /\ UnchangedInputs

MimicEcMultAir ==
    /\ call' = [op |-> "mimic_ec_mult_air",
                result |-> Ok(mimic_ec_mult_air(ecdsa.x, ecdsa.point, ecdsa.shift_point))]
    /\ UnchangedInputs

\* zero, small scalars, and the scalars around 2^250, 2^251 and the ends of the range
Scalars ==
    {U256(0), U256(1), U256(2), U256(5), U256(100), <<0, 0, 0, 1, 0, 0, 0, 0, 0, 0, 0, 0, 0, 0, 0, 0>>,
     OneShl(250, U256Limbs), WrappingSub(TwoPow251, One), TwoPow251,
     WrappingAdd(TwoPow251, One), OneShl(255, U256Limbs), WrappingSub(U256(0), One)}

\* the generator, the shift point, their negations and doubles, and the point at infinity
BasePoints ==
    {GENERATOR, point_neg(GENERATOR), point_double(GENERATOR), SHIFT_POINT,
     point_double(SHIFT_POINT), point_add(GENERATOR, SHIFT_POINT), Identity}

\* the two shift points of InstanceTrace::new, and three times the generator
ShiftPoints ==
    {SHIFT_POINT, point_neg(SHIFT_POINT), point_add(point_double(GENERATOR), GENERATOR)}

InitEcMult ==
    /\ debug_assertions \in BOOLEAN
    /\ ecdsa \in [x : Scalars, point : BasePoints, shift_point : ShiftPoints]
    /\ word = U256(0)
    /\ ap = Usize(0)
    /\ fp = Usize(0)
    /\ pc = Usize(0)
    /\ mem = <<None>>
    /\ records = <<>>
    /\ tail = <<>>
    /\ public_memory = <<>>
    /\ call = NoCall

NextEcMult ==
    \/ GenEcMultSteps
    \/ MimicEcMultAir

SpecEcMult == InitEcMult /\ [][NextEcMult]_vars

(* The group law as a reference, without the double-and-add of the source: *)
(* the multiples of a point by repeated addition, and a scalar reduced     *)
(* modulo the order of the group.                                          *)

RECURSIVE multiples_block(_, _, _)
multiples_block(acc, p, n) ==
    IF n = 0 \/ Len(acc) = CurveOrder THEN acc
    ELSE multiples_block(Append(acc, point_add(acc[Len(acc)], p)), p, n - 1)

RECURSIVE multiples_from(_, _)
multiples_from(acc, p) ==
    IF Len(acc) = CurveOrder THEN acc
    ELSE multiples_from(multiples_block(acc, p, LimbBits), p)

\* <<0 * p, 1 * p, .., (CurveOrder - 1) * p>>
Multiples(p) == multiples_from(<<Identity>>, p)

RECURSIVE mod_order_from(_, _, _)
mod_order_from(a, j, acc) ==
    IF j = 0 THEN acc
    ELSE mod_order_from(a, j - 1, (acc * Pow2(LimbBits) + a[j]) % CurveOrder)

\* a modulo the order of the group
ModOrder(a) == mod_order_from(a, Len(a), 0)

\* s mod 2^i
LowBits(s, i) ==
    TupleOf([j \in 1..Len(s) |->
                IF LimbBits * j <= i THEN s[j]
                ELSE IF LimbBits * (j - 1) >= i THEN 0
                ELSE s[j] % Pow2(i - LimbBits * (j - 1))],
            Len(s))

\* 1 <= x < 2^251: x is not zero and its five highest bits are zero
InScalarRange(x) == x # U256(0) /\ x[U256Limbs] < 2048

\* the iterations i of a multiplication of p by x from the shift point s at which the
\* partial sum s + (x mod 2^i) * p and the fixed point 2^i * p have the same x-coordinate
DegenerateIterations(x, p, s) ==
    LET table == Multiples(p)
    IN  {i \in 0..Iterations - 1 :
            point_add(s, table[ModOrder(LowBits(x, i)) + 1]).x
                = table[ModOrder(OneShl(i, U256Limbs)) + 1].x}

ScalarRejected(result) ==
    result \in {Panic("assertion failed: x != U256::ZERO"),
                Panic("assertion failed: x < 2^251")}

\* C16: gen_ec_mult_steps rejects its scalar, by one of its two assertions and before
\* it records a step, exactly when the scalar is zero or at least 2^251, and
\* mimic_ec_mult_air accepts exactly the same scalars 1 <= scalar < 2^251: it
\* returns None for every scalar outside the range, and for a scalar inside the
\* range it returns None only when an iteration below the bit length is degenerate.
C16_ScalarRange ==
    /\ call.op = "gen_ec_mult_steps" =>
           (ScalarRejected(call.result) <=> ~InScalarRange(ecdsa.x))
    /\ call.op = "mimic_ec_mult_air" =>
           /\ ~InScalarRange(ecdsa.x) => call.result.val = None
           /\ (InScalarRange(ecdsa.x) /\ call.result.val = None) =>
                  \E i \in DegenerateIterations(ecdsa.x, ecdsa.point, ecdsa.shift_point) :
                      ~IsZero(Shr(ecdsa.x, i))

\* the scalar 2^251, the first one out of range, is rejected by gen_ec_mult_steps
C16_Witness ==
    /\ call.op = "gen_ec_mult_steps"
    /\ ecdsa.x = TwoPow251
    /\ call.result = Panic("assertion failed: x < 2^251")

\* C18: a call of gen_ec_mult_steps on a scalar in range fails on its unwrap of a None,
\* returning no step chain, whenever at one of the 256 iterations the partial sum
\* and the fixed point have the same x-coordinate, whatever the bit of the scalar at
\* that iteration and also above the highest set bit of the scalar.
C18_DegenerateRejected ==
    (/\ call.op = "gen_ec_mult_steps"
     /\ InScalarRange(ecdsa.x)
     /\ DegenerateIterations(ecdsa.x, ecdsa.point, ecdsa.shift_point) # {})
        => call.result = Panic("unwrap on None")

\* a multiplication whose only degenerate iterations lie above the highest set bit of
\* the scalar is rejected
C18_Witness ==
    /\ call.op = "gen_ec_mult_steps"
    /\ InScalarRange(ecdsa.x)
    /\ DegenerateIterations(ecdsa.x, ecdsa.point, ecdsa.shift_point) # {}
    /\ \A i \in DegenerateIterations(ecdsa.x, ecdsa.point, ecdsa.shift_point) :
           IsZero(Shr(ecdsa.x, i))
    /\ call.result = Panic("unwrap on None")

\* the steps of a chain that gen_ec_mult_steps returned
Steps == call.result.val

\* bit i of the scalar, read from the recorded suffix of step i
SuffixIsOdd(i) == Steps[i + 1].suffix[1] % 2 = 1

\* C19: in a chain returned by gen_ec_mult_steps for the scalar s, the base point P
\* and the shift point S, step i holds the state before the mutation of iteration i:
\* partial_sum = S + (s mod 2^i) * P, fixed_point = 2^i * P and suffix = s >> i
\* (step 0 has the suffix s, and each suffix is twice the next one plus its own
\* lowest bit); the partial sum of step i + 1 is that of step i when bit i is 0, and
\* the slope of step i is zero when bit i is 0.
C19_StepIsStateBefore ==
    (call.op = "gen_ec_mult_steps" /\ call.result.tag = "ok") =>
        LET table == Multiples(ecdsa.point)
        IN  /\ InScalarRange(ecdsa.x)
            /\ Len(Steps) = 256
            /\ Steps[1].suffix = ecdsa.x
            /\ Steps[1].partial_sum = ecdsa.shift_point
            /\ \A i \in 0..Len(Steps) - 1 :
                   /\ Steps[i + 1].partial_sum
                          = point_add(ecdsa.shift_point,
                                      table[ModOrder(LowBits(ecdsa.x, i)) + 1])
                   /\ Steps[i + 1].fixed_point = table[ModOrder(OneShl(i, U256Limbs)) + 1]
                   /\ ~SuffixIsOdd(i) => Steps[i + 1].slope = 0
                   /\ i + 1 < Len(Steps) =>
                          /\ Steps[i + 1].suffix
                                 = WrappingAdd(WrappingAdd(Steps[i + 2].suffix,
                                                           Steps[i + 2].suffix),
                                               U256(IF SuffixIsOdd(i) THEN 1 ELSE 0))
                          /\ ~AddOverflows(Steps[i + 2].suffix, Steps[i + 2].suffix)
                          /\ Steps[i + 2].fixed_point = point_double(Steps[i + 1].fixed_point)
                          /\ ~SuffixIsOdd(i) =>
                                 Steps[i + 2].partial_sum = Steps[i + 1].partial_sum
                   /\ i + 1 = Len(Steps) => Steps[i + 1].suffix = U256(0)

\* a chain for the scalar 5: the partial sum moves after the steps 0 and 2 only
C19_Witness ==
    /\ call.op = "gen_ec_mult_steps"
    /\ call.result.tag = "ok"
    /\ ecdsa.x = U256(5)
    /\ Steps[2].partial_sum # Steps[1].partial_sum
    /\ Steps[3].partial_sum = Steps[2].partial_sum
    /\ Steps[4].partial_sum # Steps[3].partial_sum

----------------------------------------------------------------------------
(* InstanceTrace::new                                                      *)
(*                                                                         *)
(* The scalar field Fr is also outside the sources at hand.  An element    *)
(* of it is kept as a value below the order of the source's curve, or as   *)
(* the inverse of one: the source inverts w and inverts the result again,  *)
(* and reads the value of nothing but w itself.                            *)

\* the modulus of Fr
FR_MODULUS ==
    <<19759, 44486, 41537, 7782, 45618, 51943, 4717, 46977,
      65535, 65535, 65535, 65535, 16, 0, 0, 2048>>

RECURSIVE fr_reduce(_)
fr_reduce(a) == IF Less(a, FR_MODULUS) THEN a ELSE fr_reduce(WrappingSub(a, FR_MODULUS))

\* Fr::from(BigUint)
Fr_from(a) == [val |-> fr_reduce(a), inverted |-> FALSE]

\* Field::inverse in Fr: None for zero
Fr_inverse(a) ==
    IF IsZero(a.val) THEN None ELSE Some([val |-> a.val, inverted |-> ~a.inverted])

\* the value of an element of Fr that is not kept as an inverse
Fr_into(a) == a.val

\* expect(msg)
expect(opt, msg) == IF opt = None THEN Panic(msg) ELSE Ok(opt[1])

DoublingStep(point, slope) == [point |-> point, slope |-> slope]

\* the body of the loop recording the point after the doubling
doubling_round_recording_double(s) ==
    LET slope == unwrap(calculate_slope(s[1], s[1]))
    IN  IF IsPanic(slope) THEN <<s[1], slope>>
        ELSE <<point_double(s[1]),
               Ok(Append(s[2].val, DoublingStep(point_double(s[1]), slope.val)))>>

\* the body of for _ in 0..256; s = <<p, res>>
doubling_round(s) ==
    LET slope == unwrap(calculate_slope(s[1], s[1]))
    IN  IF IsPanic(slope) THEN <<s[1], slope>>
        ELSE <<point_double(s[1]), Ok(Append(s[2].val, DoublingStep(s[1], slope.val)))>>

DoublingDone(s) == IsPanic(s[2]) \/ Len(s[2].val) = Iterations

RECURSIVE doubling_block(_, _)
doubling_block(s, n) ==
    IF n = 0 \/ DoublingDone(s) THEN s ELSE doubling_block(doubling_round(s), n - 1)

RECURSIVE doubling_loop(_)
doubling_loop(s) == IF DoublingDone(s) THEN s ELSE doubling_loop(doubling_block(s, LimbBits))

doubling_steps(p) == doubling_loop(<<p, Ok(<<>>)>>)[2]

(* A value that is used more than once is bound by  v \in {e}  in a set    *)
(* constructor, so that e is evaluated once; the set has one element,      *)
(* which CHOOSE takes.                                                     *)

\* r compared with the x-coordinate of wb itself
signature_x_without_shift(wb, shift_point) == wb.x

\* (wb - shift_point).into_affine().x
signature_x(wb, shift_point) == point_sub(wb, shift_point).x

\* the body of for pubkey_y in [y1, y0] from wb on
verify_sums(r, w, zg, rq) ==
    CHOOSE out \in
        {IF IsPanic(wb) THEN wb ELSE Ok(r = U256(signature_x(wb.val, SHIFT_POINT))) :
            wb \in {unwrap(mimic_ec_mult_air(w, point_add(zg, rq), SHIFT_POINT))}} : TRUE

\* the body of for pubkey_y in [y1, y0], up to the comparison r == x
verify_candidate(msg_hash, r, w, pubkey) ==
    CHOOSE out \in
        {IF IsPanic(zg) THEN zg
         ELSE IF IsPanic(rq) THEN rq
         ELSE verify_sums(r, w, zg.val, rq.val) :
            zg \in {unwrap(mimic_ec_mult_air(msg_hash, GENERATOR, point_neg(SHIFT_POINT)))},
            rq \in {unwrap(mimic_ec_mult_air(r, pubkey, SHIFT_POINT))}} : TRUE

\* the loop of verify over the two candidates
verify_candidates(msg_hash, r, w, pubkey1, pubkey0) ==
    CHOOSE out \in
        {IF IsPanic(first) THEN first
         ELSE IF first.val THEN Ok(Some(pubkey1))
         ELSE CHOOSE last \in
                  {IF IsPanic(second) THEN second
                   ELSE IF second.val THEN Ok(Some(pubkey0))
                   ELSE Ok(None) :
                      second \in {verify_candidate(msg_hash, r, w, pubkey0)}} : TRUE :
            first \in {verify_candidate(msg_hash, r, w, pubkey1)}} : TRUE

\* the public key of a valid signature, None for an invalid one
verify(msg_hash, r, s, pubkey_x) ==
    CHOOSE out \in
        {IF IsPanic(w) THEN w
         ELSE IF IsPanic(ys) THEN ys
         ELSE verify_candidates(msg_hash, r, Fr_into(w.val),
                                AffinePoint(CoordOfFelt(pubkey_x)[1], ys.val[1]),
                                AffinePoint(CoordOfFelt(pubkey_x)[1], ys.val[2])) :
            w \in {unwrap(Fr_inverse(s))},
            ys \in {expect(get_ys_from_x_unchecked(pubkey_x), "not on the curve")}} : TRUE

\* InstanceTrace::new from the inverses in the base field on; v and u hold the values
\* computed so far
new_from_inverses(instance, v, u) ==
    IF IsPanic(u.w_inv) THEN u.w_inv
    ELSE IF IsPanic(u.r_inv) THEN u.r_inv
    ELSE IF IsPanic(u.message_inv) THEN u.message_inv
    ELSE IF IsPanic(u.pubkey_doubling_steps) THEN u.pubkey_doubling_steps
    ELSE IF IsPanic(u.r_point_slope) THEN u.r_point_slope
    ELSE IF IsPanic(u.r_point_x_diff_inv) THEN u.r_point_x_diff_inv
    ELSE IF v.r # U256(point_sub(v.wb, SHIFT_POINT).x)
    THEN Panic("assertion failed: r == (wb - shift_point).x")
    ELSE Ok([instance |-> instance,
             pubkey |-> v.pubkey,
             pubkey_doubling_steps |-> u.pubkey_doubling_steps.val,
             w |-> u.w,
             w_inv |-> u.w_inv.val,
             r |-> v.r,
             r_inv |-> u.r_inv.val,
             r_point_slope |-> u.r_point_slope.val,
             r_point_x_diff_inv |-> u.r_point_x_diff_inv.val,
             message |-> v.message,
             message_inv |-> u.message_inv.val,
             b |-> v.b,
             b_slope |-> v.b_slope,
             b_x_diff_inv |-> v.b_x_diff_inv,
             b_doubling_steps |-> v.b_doubling_steps,
             zg_steps |-> v.zg_steps,
             rq_steps |-> v.rq_steps,
             wb_steps |-> v.wb_steps])

\* InstanceTrace::new from the three step chains on; v holds the values computed so far
new_from_steps(instance, v) ==
    IF v.zg # v.zg_steps[Len(v.zg_steps)].partial_sum
    THEN Panic("assertion failed: zg == zg_steps.last().partial_sum")
    ELSE IF v.qr # v.rq_steps[Len(v.rq_steps)].partial_sum
    THEN Panic("assertion failed: qr == rq_steps.last().partial_sum")
    ELSE IF v.wb # v.wb_steps[Len(v.wb_steps)].partial_sum
    THEN Panic("assertion failed: wb == wb_steps.last().partial_sum")
    ELSE CHOOSE out \in
             {new_from_inverses(instance, v,
                  [w |-> into_felt(v.w), w_inv |-> w_inv, r_inv |-> r_inv,
                   message_inv |-> message_inv,
                   pubkey_doubling_steps |-> pubkey_doubling_steps,
                   r_point_slope |-> r_point_slope,
                   r_point_x_diff_inv |-> r_point_x_diff_inv]) :
                 w_inv \in {unwrap(FInverse(into_felt(v.w)))},
                 r_inv \in {unwrap(FInverse(v.r))},
                 message_inv \in {unwrap(FInverse(v.message))},
                 pubkey_doubling_steps \in {doubling_steps(v.pubkey)},
                 r_point_slope \in {unwrap(calculate_slope(v.wb, point_neg(SHIFT_POINT)))},
                 r_point_x_diff_inv \in
                     {unwrap(CInverse(CSub(v.wb.x, point_neg(SHIFT_POINT).x)))}} : TRUE

\* InstanceTrace::new from b on; zg and qr are the two sums, w is the value of w
new_from_sums(instance, v, zg, qr) ==
    CHOOSE out \in
        {IF IsPanic(b_slope) THEN b_slope
         ELSE IF IsPanic(b_x_diff_inv) THEN b_x_diff_inv
         ELSE IF IsPanic(b_doubling_steps) THEN b_doubling_steps
         ELSE IF IsPanic(wb) THEN wb
         ELSE IF IsPanic(zg_steps) THEN zg_steps
         ELSE IF IsPanic(rq_steps) THEN rq_steps
         ELSE IF IsPanic(wb_steps) THEN wb_steps
         ELSE new_from_steps(instance,
                  [message |-> v.message, r |-> v.r, w |-> v.w, pubkey |-> v.pubkey,
                   zg |-> zg, qr |-> qr, b |-> b, b_slope |-> b_slope.val,
                   b_x_diff_inv |-> b_x_diff_inv.val,
                   b_doubling_steps |-> b_doubling_steps.val, wb |-> wb.val,
                   zg_steps |-> zg_steps.val, rq_steps |-> rq_steps.val,
                   wb_steps |-> wb_steps.val]) :
            b \in {point_add(zg, qr)},
            b_slope \in {unwrap(calculate_slope(zg, qr))},
            b_x_diff_inv \in {unwrap(CInverse(CSub(zg.x, qr.x)))},
            b_doubling_steps \in {doubling_steps(point_add(zg, qr))},
            wb \in {unwrap(mimic_ec_mult_air(v.w, point_add(zg, qr), SHIFT_POINT))},
            zg_steps \in {gen_ec_mult_steps(v.message, GENERATOR, point_neg(SHIFT_POINT))},
            rq_steps \in {gen_ec_mult_steps(v.r, v.pubkey, SHIFT_POINT)},
            wb_steps \in {gen_ec_mult_steps(v.w, point_add(zg, qr), SHIFT_POINT)}} : TRUE

\* InstanceTrace::new from the verified public key on; v holds message, r, the value
\* of w and pubkey
new_from_pubkey(instance, v) ==
    CHOOSE out \in
        {IF IsPanic(zg) THEN zg
         ELSE IF IsPanic(qr) THEN qr
         ELSE new_from_sums(instance, v, zg.val, qr.val) :
            zg \in {unwrap(mimic_ec_mult_air(v.message, GENERATOR, point_neg(SHIFT_POINT)))},
            qr \in {unwrap(mimic_ec_mult_air(v.r, v.pubkey, SHIFT_POINT))}} : TRUE

\* InstanceTrace::new from the call of verify on
new_from_verify(instance, message, pubkey_x, r, w, s) ==
    CHOOSE out \in
        {IF IsPanic(verified) THEN verified
         ELSE IF verified.val = None THEN Panic("signature is invalid")
         ELSE new_from_pubkey(instance,
                  [message |-> message, r |-> r, w |-> Fr_into(w),
                   pubkey |-> verified.val[1]]) :
            verified \in {verify(message, r, s, pubkey_x)}} : TRUE

InstanceTrace_new(instance) ==
    CHOOSE out \in
        {IF IsPanic(s) THEN s
         ELSE new_from_verify(instance, message, pubkey_x, r, w, s.val) :
            message \in {into_felt(instance.message)},
            pubkey_x \in {into_felt(instance.pubkey_x)},
            r \in {into_felt(instance.signature.r)},
            w \in {Fr_from(instance.signature.w)},
            s \in {unwrap(Fr_inverse(Fr_from(instance.signature.w)))}} : TRUE

New ==
    /\ call' = [op |-> "new", result |-> InstanceTrace_new(ecdsa)]
    /\ UnchangedInputs

\* verify, with the arguments InstanceTrace::new hands to it
Verify ==
    /\ ~IsZero(Fr_from(ecdsa.signature.w).val)
    /\ call' = [op |-> "verify",
                result |-> verify(into_felt(ecdsa.message), into_felt(ecdsa.signature.r),
                                  Fr_inverse(Fr_from(ecdsa.signature.w))[1],
                                  into_felt(ecdsa.pubkey_x))]
    /\ UnchangedInputs

\* the x-coordinate of a point (4), of none (7), 4 + p, and one beyond the coordinates
PubkeyXs == {U256(4), U256(7), WrappingAdd(MODULUS, U256(4)), OneShl(16, U256Limbs)}

\* zero, a small message, p (which is zero in the field) and a message of 251 bits
Messages == {U256(0), U256(2), MODULUS, WrappingAdd(OneShl(250, U256Limbs), U256(3))}

\* zero, and x-coordinates that some of the keys and messages sign with
SignatureRs == {U256(0), U256(4), U256(42), U256(74), U256(92)}

\* zero, small values, 2^251 and 3 + the order of the source's curve
SignatureWs == {U256(0), U256(1), U256(3), TwoPow251, WrappingAdd(FR_MODULUS, U256(3))}

EcdsaInstances ==
    [pubkey_x : PubkeyXs, message : Messages, signature : [r : SignatureRs, w : SignatureWs]]

InitTrace ==
    /\ debug_assertions \in BOOLEAN
    /\ ecdsa \in EcdsaInstances
    /\ word = U256(0)
    /\ ap = Usize(0)
    /\ fp = Usize(0)
    /\ pc = Usize(0)
    /\ mem = <<None>>
    /\ records = <<>>
    /\ tail = <<>>
    /\ public_memory = <<>>
    /\ call = NoCall

NextTrace ==
    \/ New
    \/ Verify

SpecTrace == InitTrace /\ [][NextTrace]_vars

\* k * p by the table of the multiples of p
ScalarMul(k, p) == Multiples(p)[ModOrder(k) + 1]

\* the field elements InstanceTrace::new reads from its instance
MessageOf(instance) == IF Less(instance.message, MODULUS) THEN instance.message
                       ELSE WrappingSub(instance.message, MODULUS)

ROf(instance) == instance.signature.r

WOf(instance) == IF Less(instance.signature.w, FR_MODULUS) THEN instance.signature.w
                 ELSE WrappingSub(instance.signature.w, FR_MODULUS)

PubkeyXOf(instance) == IF Less(instance.pubkey_x, MODULUS) THEN instance.pubkey_x
                       ELSE WrappingSub(instance.pubkey_x, MODULUS)

\* the points of the curve with the x-coordinate of the instance, the smaller y first
Candidates(instance) ==
    LET x == PubkeyXOf(instance)
        on == {q \in {AffinePoint(c, y) : c \in {x[1]} \cap (0..CoordModulus - 1),
                                          y \in 0..CoordModulus - 1} :
                  U256(q.x) = x /\ OnCurve(q.x, q.y)}
    IN  IF on = {} THEN <<>>
        ELSE LET low == CHOOSE q \in on : \A o \in on : q.y <= o.y
             IN  <<low, point_neg(low)>>

\* x(w * (z * G + r * Q)) = r
Satisfies(instance, Q) ==
    LET B == point_add(ScalarMul(MessageOf(instance), GENERATOR),
                       ScalarMul(ROf(instance), Q))
    IN  U256(ScalarMul(WOf(instance), B).x) = ROf(instance)

\* the candidates that satisfy the equation, in the order tried
SatisfyingCandidates(instance) ==
    SelectSeq(Candidates(instance), LAMBDA Q : Satisfies(instance, Q))

\* the multiplication of p by x from the shift point s is defined in the AIR: x is in
\* range and no iteration below its bit length is degenerate
MimicDefined(x, p, s) ==
    /\ InScalarRange(x)
    /\ \A i \in DegenerateIterations(x, p, s) : IsZero(Shr(x, i))

\* the three multiplications of the verification of the candidate Q are defined
VerificationDefined(instance, Q) ==
    LET zg == point_sub(ScalarMul(MessageOf(instance), GENERATOR), SHIFT_POINT)
        rq == point_add(ScalarMul(ROf(instance), Q), SHIFT_POINT)
    IN  /\ MimicDefined(MessageOf(instance), GENERATOR, point_neg(SHIFT_POINT))
        /\ MimicDefined(ROf(instance), Q, SHIFT_POINT)
        /\ MimicDefined(WOf(instance), point_add(zg, rq), SHIFT_POINT)

\* C15: InstanceTrace::new returns a trace only if a candidate for pubkey_x satisfies
\* x(w * (z * G + r * Q)) = r, and the pubkey of the trace is the first candidate, in
\* the order tried, that satisfies it; when no candidate satisfies it the call fails
\* and returns no trace, with "signature is invalid" when the multiplications of
\* the verification are defined for both candidates.  verify itself returns the
\* first satisfying candidate or, when it returns None, no candidate satisfies it.
C15_FirstSatisfyingCandidate ==
    LET sat == SatisfyingCandidates(ecdsa)
        cands == Candidates(ecdsa)
    IN  /\ call.op = "new" =>
               /\ call.result.tag = "ok" =>
                      sat # <<>> /\ call.result.val.pubkey = sat[1]
               /\ sat = <<>> => IsPanic(call.result)
               /\ (/\ sat = <<>>
                   /\ cands # <<>>
                   /\ WOf(ecdsa) # U256(0)
                   /\ \A j \in 1..2 : VerificationDefined(ecdsa, cands[j]))
                      => call.result = Panic("signature is invalid")
        /\ call.op = "verify" =>
               /\ (call.result.tag = "ok" /\ call.result.val # None) =>
                      sat # <<>> /\ call.result.val = Some(sat[1])
               /\ call.result = Ok(None) => sat = <<>>

\* a trace whose public key is the second candidate, the first one failing the equation
C15_Witness ==
    /\ call.op = "new"
    /\ call.result.tag = "ok"
    /\ ~Satisfies(ecdsa, Candidates(ecdsa)[1])
    /\ call.result.val.pubkey = Candidates(ecdsa)[2]

\* the trace that InstanceTrace::new returned
Trace == call.result.val

\* the chain starts at the point p and every step holds the double of the one before:
\* step i holds 2^i * p
IsDoublingChain(chain, p) ==
    LET table == Multiples(p)
    IN  /\ Len(chain) = 256
        /\ chain[1].point = p
        /\ \A i \in 1..Len(chain) - 1 :
               chain[i + 1].point = point_add(chain[i].point, chain[i].point)
        /\ \A i \in 1..Len(chain) : chain[i].point = table[ModOrder(OneShl(i - 1, U256Limbs)) + 1]

\* C17: a trace returned by InstanceTrace::new has 256 steps in zg_steps, rq_steps and
\* wb_steps and 256 steps in pubkey_doubling_steps and b_doubling_steps; the doubling
\* chains start at the public key and at B = z * G + r * Q, and the point of each
\* further step is the double of the point of the step before.
C17_ChainsOf256Steps ==
    (call.op = "new" /\ call.result.tag = "ok") =>
        /\ Len(Trace.zg_steps) = 256
        /\ Len(Trace.rq_steps) = 256
        /\ Len(Trace.wb_steps) = 256
        /\ IsDoublingChain(Trace.pubkey_doubling_steps, Trace.pubkey)
        /\ IsDoublingChain(Trace.b_doubling_steps,
                           point_add(ScalarMul(MessageOf(ecdsa), GENERATOR),
                                     ScalarMul(ROf(ecdsa), Trace.pubkey)))

\* a returned trace, for the message 2 and the signature (42, 3) under the key of x = 4
C17_Witness ==
    /\ call.op = "new"
    /\ call.result.tag = "ok"
    /\ ecdsa.message = U256(2)
    /\ ecdsa.signature = [r |-> U256(42), w |-> U256(3)]
    /\ Len(Trace.b_doubling_steps) = 256
    /\ Trace.b_doubling_steps[2].point # Trace.b_doubling_steps[1].point

\* C20: in a trace returned by InstanceTrace::new the partial sum of the last step of
\* each of the three chains is the result of mimic_ec_mult_air for the same scalar,
\* point and shift, which is scalar * point + shift, and no call of InstanceTrace::new
\* fails on one of its three assert_eq! on these partial sums.
C20_LastPartialSumIsProduct ==
    call.op = "new" =>
        /\ call.result \notin
               {Panic("assertion failed: zg == zg_steps.last().partial_sum"),
                Panic("assertion failed: qr == rq_steps.last().partial_sum"),
                Panic("assertion failed: wb == wb_steps.last().partial_sum")}
        /\ call.result.tag = "ok" =>
               LET zG == ScalarMul(MessageOf(ecdsa), GENERATOR)
                   rQ == ScalarMul(ROf(ecdsa), Trace.pubkey)
                   B == point_add(zG, rQ)
               IN  /\ Trace.zg_steps[256].partial_sum = point_sub(zG, SHIFT_POINT)
                   /\ Trace.rq_steps[256].partial_sum = point_add(rQ, SHIFT_POINT)
                   /\ Trace.wb_steps[256].partial_sum
                          = point_add(ScalarMul(WOf(ecdsa), B), SHIFT_POINT)
                   /\ Some(Trace.zg_steps[256].partial_sum)
                          = mimic_ec_mult_air(MessageOf(ecdsa), GENERATOR,
                                              point_neg(SHIFT_POINT))
                   /\ Some(Trace.rq_steps[256].partial_sum)
                          = mimic_ec_mult_air(ROf(ecdsa), Trace.pubkey, SHIFT_POINT)
                   /\ Some(Trace.wb_steps[256].partial_sum)
                          = mimic_ec_mult_air(WOf(ecdsa), B, SHIFT_POINT)

\* a returned trace whose last partial sum of wb_steps differs from the shift point
C20_Witness ==
    /\ call.op = "new"
    /\ call.result.tag = "ok"
    /\ Len(Trace.wb_steps) = 256
    /\ Trace.wb_steps[256].partial_sum # SHIFT_POINT
    /\ Trace.wb_steps[256].partial_sum # Trace.wb_steps[1].partial_sum

----------------------------------------------------------------------------
(* The verification pass (mimic_ec_mult_air, verify) against the           *)
(* trace-generation pass (gen_ec_mult_steps, InstanceTrace::new).          *)

\* gen_ec_mult_steps completes its 256 iterations on the arguments of the state
GenCompletes ==
    gen_ec_mult_steps(ecdsa.x, ecdsa.point, ecdsa.shift_point).tag = "ok"

\* mimic_ec_mult_air returns Some on the arguments of the state
MimicIsSome ==
    mimic_ec_mult_air(ecdsa.x, ecdsa.point, ecdsa.shift_point) # None

\* C21: the verification pass and the trace-generation pass agree on which inputs are
\* degenerate: for every scalar, base point and shift point, mimic_ec_mult_air
\* returns Some if and only if gen_ec_mult_steps on the same arguments completes
\* all 256 iterations without failing.
C21_PassesAgree ==
    /\ call.op = "mimic_ec_mult_air" => ((call.result.val # None) <=> GenCompletes)
    /\ call.op = "gen_ec_mult_steps" => ((call.result.tag = "ok") <=> MimicIsSome)

\* the scalar 1, the base point G and the shift point 3G: the partial sum is 4G from
\* iteration 1 on and the fixed point is 4G at iteration 2, above the highest set bit
\* of the scalar; mimic_ec_mult_air has left its loop by then and returns Some(4G),
\* and gen_ec_mult_steps fails on the inverse of zero
C21_FailingInput ==
    /\ call.op = "gen_ec_mult_steps"
    /\ ecdsa.x = U256(1)
    /\ ecdsa.point = GENERATOR
    /\ ecdsa.shift_point = point_add(point_double(GENERATOR), GENERATOR)
    /\ call.result = Panic("unwrap on None")
    /\ mimic_ec_mult_air(ecdsa.x, ecdsa.point, ecdsa.shift_point)
           = Some(point_double(point_double(GENERATOR)))

\* one direction of C21: whenever mimic_ec_mult_air returns None, gen_ec_mult_steps
\* fails on the same arguments
NoneImpliesGenFails ==
    /\ call.op = "mimic_ec_mult_air" => ((call.result.val = None) => ~GenCompletes)
    /\ call.op = "gen_ec_mult_steps" => ((call.result.tag = "ok") => MimicIsSome)

\* verify on the instance of the state, as InstanceTrace::new calls it
Verified ==
    verify(into_felt(ecdsa.message), into_felt(ecdsa.signature.r),
           Fr_inverse(Fr_from(ecdsa.signature.w))[1], into_felt(ecdsa.pubkey_x))

\* the case of C21 for InstanceTrace::new, under SpecTrace: an instance whose
\* signature verify accepts is built into a trace, with no failure after verify
AcceptedInstanceCompletes ==
    (/\ call.op = "new"
     /\ ~IsZero(Fr_from(ecdsa.signature.w).val)
     /\ Verified.tag = "ok"
     /\ Verified.val # None)
        => call.result.tag = "ok"

====
